---- MODULE Spec2Model ----
(***************************************************************************)
(* Traffic capture-and-analysis pipeline of agent-system-dissect:          *)
(*   - the capture runner (runner.py: run, cleanup),                       *)
(*   - the mitmproxy addon appending to the shared log (capture_addon.py), *)
(*   - the SSE decoder (sse.py) and the response renderer                  *)
(*     (openai_responses.py),                                              *)
(*   - header redaction and report assembly (analyze.py).                  *)
(* Texts are sequences of one-character strings, so that the string        *)
(* operations of the code (split, strip, startswith, lower, slicing) are   *)
(* computed character by character.                                        *)
(***************************************************************************)
EXTENDS Integers, Sequences, FiniteSets, TLC

VARIABLES
    \* ---- capture runner (runner.py) ----
    pc,          \* position of run()
    nprox,       \* len(profile.proxies)
    hasCmd,      \* target_cmd is truthy
    procs,       \* the list procs (listener ids, in start order)
    fresh,       \* a Popen object returned but not yet appended (0: none)
    lst,         \* listener process state: "none" | "running" | "exited" | "reaped"
    termSent,    \* listener has been sent SIGTERM by p.terminate()
    frames,      \* stack of active cleanup() calls (handler or direct)
    installed,   \* signal.signal(...) has been executed
    sigs,        \* number of SIGINT/SIGTERM delivered to the runner
    idx,         \* loop index of the loop run() is in
    cmdRc,       \* result.returncode of the target command: <<rc>> (<<>>: not run)
    exitStatus,  \* exit status of the runner process: <<n>> (<<>>: still running)
    endKind,     \* how run() ended: "none" | "exit" | "return" | "raise"
    hist,        \* history (ghost) record of what has happened
    \* ---- shared traffic log written by the addon (capture_addon.py) ----
    wpc,         \* position of each mitmdump process inside response()
    lockHolder,  \* process holding the exclusive flock on traffic.jsonl (0: none)
    file,        \* contents of traffic.jsonl: a sequence of pieces of lines
    buf,         \* per process: pieces of the line still in the file object's buffer
    completed,   \* per process: number of appends whose flush() has returned
    \* ---- an event-stream response body and its decoding (sse.py, openai_responses.py) ----
    respBody,    \* the response body text
    sent,        \* history: the events the upstream has put into the body
    wellFormed,  \* history: the body is made of whole events and non-field lines only
    emitted,     \* number of pieces emitted into the body
    ssePc,       \* "stream" | "closed" | "decoded" | "rendered"
    decoded,     \* result of parse_sse_events(respBody)
    rendered,    \* result of format_response_body(respBody, status)
    \* ---- header redaction for the report (analyze.py, types.py) ----
    theProfile,  \* the AnalysisProfile in use: its name and its redacted_headers
    reqHeaders,  \* headers of a logged exchange: <<name, value>> pairs in dict order
    redactOut,   \* result of redact_headers(reqHeaders, profile.redacted_headers)
    redPc,       \* "build" | "done"
    \* ---- report assembly (analyze.py) ----
    clock,       \* the wall clock, in ticks
    reportIn,    \* the arguments of format_report: statistics, entries, source, profile
    reports,     \* the reports assembled so far: when (at) and the text
    \* ---- the decoder loop over the blocks of an event stream (sse.py) ----
    sseRaw,      \* the argument raw of parse_sse_events
    nLines,      \* number of lines the body was built from
    loopPc,      \* "build" | "loop" | "returned" | "raised"
    blockNo,     \* index of the block the for loop is at
    sseEvents,   \* the list events
    yielded,     \* history: per block handled, the events it appended
    \* ---- the analyzer run on a sequence of exchanges (analyze.py) ----
    anEntries,   \* the list entries, as it is now
    anOriginal,  \* history: the list as it was handed over
    anProfile,   \* the AnalysisProfile in use
    anPc,        \* "build" | "analyzed" | "raised" | "reported"
    anStats,     \* the result of analyze(entries)
    anReport,    \* the result of format_report(...)
    \* ---- the two command lines run from a shell (analyze.py main, runner.py main) ----
    cliPc,       \* "shell" | position of the main() that runs | "done"
    argv,        \* the arguments of the program that runs
    ran,         \* history: the invocations that ended at the profile lookup
    logExists,   \* the input path names a file
    logLines,    \* the lines of that file
    cliProfile,  \* analysis main: profile
    outputPath,  \* analysis main: output_path
    cliEntries,  \* analysis main: entries
    cliStats,    \* analysis main: analysis_data
    cliText,     \* analysis main: report
    written,     \* files the analysis CLI has written: <<path, text>> pairs
    cliDirs,     \* directories the analysis CLI has made
    cliExit,     \* exit status and diagnostic of the program: <<r>> (<<>>: none yet)
    \* ---- the environments run() of runner.py hands to the processes it starts ----
    envPc,       \* position in run()
    envProfile,  \* profile: output_dir, env_overrides, number of proxies
    envHasCmd,   \* target_cmd is given
    ambient,     \* history: os.environ when run() was entered
    heap,        \* the dict objects: heap[1] is os.environ
    envRef,      \* the object the local env names (0: unbound)
    outputDir,   \* the local output_dir
    listenerEnvs, \* the environment each listener process was started with
    addonDirs,   \* OUTPUT_DIR as the addon of each listener reads it
    targetEnv,   \* <<the environment the target command was started with>>
    \* ---- a response body handed to the response renderer ----
    bodyText,    \* the text of the body
    bodyLines,   \* number of lines written to it
    bodyPc,      \* "build" | "rendered"
    bodyEvents,  \* what parse_sse_events gave the renderer (<<>> when it was not called)
    bodyRendered,\* what format_response_body returned
    \* ---- the content of an input message and the texts extracted from it ----
    msgContent,  \* content: a list of content parts
    msgPc,       \* "build" | "extracted"
    msgFull,     \* what _message_content_full returned
    msgPreview,  \* what _message_content_preview returned
    \* ---- the request renderer ----
    reqBody,     \* the request body of an exchange
    reqPc,       \* "build", "rendered" or "raised"
    reqText      \* what format_request_body returned

runnerVars == <<pc, nprox, hasCmd, procs, fresh, lst, termSent, frames,
                installed, sigs, idx, cmdRc, exitStatus, endKind, hist>>

logVars == <<wpc, lockHolder, file, buf, completed>>

sseVars == <<respBody, sent, wellFormed, emitted, ssePc, decoded, rendered>>

redactVars == <<theProfile, reqHeaders, redactOut, redPc>>

reportVars == <<clock, reportIn, reports>>

loopVars == <<sseRaw, nLines, loopPc, blockNo, sseEvents, yielded>>

analysisVars == <<anEntries, anOriginal, anProfile, anPc, anStats, anReport>>

cliVars == <<cliPc, argv, ran, logExists, logLines, cliProfile, outputPath, cliEntries, cliStats, cliText, written, cliDirs, cliExit>>

envVars == <<envPc, envProfile, envHasCmd, ambient, heap, envRef, outputDir, listenerEnvs, addonDirs, targetEnv>>

bodyVars == <<bodyText, bodyLines, bodyPc, bodyEvents, bodyRendered>>

msgVars == <<msgContent, msgPc, msgFull, msgPreview>>

reqVars == <<reqBody, reqPc, reqText>>

vars == <<runnerVars, logVars, sseVars, redactVars, reportVars, loopVars,
        analysisVars, cliVars, envVars, bodyVars, msgVars, reqVars>>

\* what the steps of one component leave alone
NotRunner == <<logVars, sseVars, redactVars, reportVars, loopVars,
        analysisVars, cliVars, envVars, bodyVars, msgVars, reqVars>>
NotLog == <<runnerVars, sseVars, redactVars, reportVars, loopVars,
        analysisVars, cliVars, envVars, bodyVars, msgVars, reqVars>>
NotSse == <<runnerVars, logVars, redactVars, reportVars, loopVars,
        analysisVars, cliVars, envVars, bodyVars, msgVars, reqVars>>
NotRedact == <<runnerVars, logVars, sseVars, reportVars, loopVars,
        analysisVars, cliVars, envVars, bodyVars, msgVars, reqVars>>
NotReport == <<runnerVars, logVars, sseVars, redactVars, loopVars,
        analysisVars, cliVars, envVars, bodyVars, msgVars, reqVars>>
NotLoop == <<runnerVars, logVars, sseVars, redactVars, reportVars,
        analysisVars, cliVars, envVars, bodyVars, msgVars, reqVars>>
NotAnalysis == <<runnerVars, logVars, sseVars, redactVars, reportVars,
        loopVars, cliVars, envVars, bodyVars, msgVars, reqVars>>
NotCli == <<runnerVars, logVars, sseVars, redactVars, reportVars, loopVars,
        analysisVars, envVars, bodyVars, msgVars, reqVars>>
NotEnv == <<runnerVars, logVars, sseVars, redactVars, reportVars, loopVars,
        analysisVars, cliVars, bodyVars, msgVars, reqVars>>
NotBody == <<runnerVars, logVars, sseVars, redactVars, reportVars, loopVars,
        analysisVars, cliVars, envVars, msgVars, reqVars>>
NotMsg == <<runnerVars, logVars, sseVars, redactVars, reportVars, loopVars,
        analysisVars, cliVars, envVars, bodyVars, reqVars>>
NotReq == <<runnerVars, logVars, sseVars, redactVars, reportVars, loopVars,
        analysisVars, cliVars, envVars, bodyVars, msgVars>>

(***************************************************************************)
(* Bounds                                                                  *)
(***************************************************************************)
MaxProxies == 2
MaxSignals == 2
MaxWriters == 2     \* mitmdump processes sharing the log
MaxEntries == 2     \* flows each process logs
MaxPieces == 2      \* pieces in which the io layer may hand a line to the file
MaxHeaders == 2     \* headers of a logged exchange
MaxRuns == 2        \* runs of format_report on the same arguments
MaxClock == 3       \* ticks the clock advances
TicksPerSecond == 2 \* resolution of the clock
MaxBlocks == 3      \* pieces the upstream emits into an event-stream body
MaxLines == 3       \* lines of the body the decoder loop is run on
MaxExchanges == 2   \* exchanges in the list the analyzer is given
MaxLogLines == 2    \* lines of the log the analysis CLI is run on
MaxBodyLines == 2   \* lines of a text response body
MaxParts == 3       \* content parts of a message
MaxFields == 2      \* fields of a request object

(***************************************************************************)
(* Texts: sequences of one-character strings, with Python's str operations *)
(***************************************************************************)
NL == <<"\n">>
NLNL == <<"\n", "\n">>

\* the characters str.strip() removes that occur in the texts of this model
Whitespace == {" ", "\n", "\t", "\r"}

\* s[i:] for a 0-based index i >= 0
From(s, i) == SubSeq(s, i + 1, Len(s))

\* s[:n]
Prefix(s, n) == SubSeq(s, 1, IF n < Len(s) THEN n ELSE Len(s))

\* s.startswith(p)
StartsWith(s, p) == Len(s) >= Len(p) /\ SubSeq(s, 1, Len(p)) = p

\* sep occurs in s at (1-based) position i
OccursAt(s, sep, i) == i + Len(sep) - 1 <= Len(s) /\ SubSeq(s, i, i + Len(sep) - 1) = sep

\* first index >= from where sep occurs in s (Len(s) + 1: none)
NextOccurrence(s, sep, from) ==
    IF \E j \in from..Len(s) : OccursAt(s, sep, j)
      THEN CHOOSE j \in from..Len(s) :
             OccursAt(s, sep, j) /\ \A k \in from..(j - 1) : ~OccursAt(s, sep, k)
      ELSE Len(s) + 1

\* s.split(sep): left to right, occurrences do not overlap; from is where the
\* current field starts
RECURSIVE SplitFrom(_, _, _)
RECURSIVE SplitAt(_, _, _, _)
SplitFrom(s, sep, from) == SplitAt(s, sep, from, NextOccurrence(s, sep, from))

\* j is the next occurrence of sep
SplitAt(s, sep, from, j) ==
    IF j > Len(s) THEN <<SubSeq(s, from, Len(s))>>
    ELSE <<SubSeq(s, from, j - 1)>> \o SplitFrom(s, sep, j + Len(sep))

Split(s, sep) == SplitFrom(s, sep, 1)

\* sep.join(parts)
RECURSIVE JoinFrom(_, _, _)
JoinFrom(parts, sep, i) ==
    IF i > Len(parts) THEN <<>>
    ELSE IF i = Len(parts) THEN parts[i]
    ELSE parts[i] \o sep \o JoinFrom(parts, sep, i + 1)

Join(parts, sep) == JoinFrom(parts, sep, 1)

\* first index of s holding no whitespace (Len(s) + 1: none), last one (0: none)
FirstNonWs(s) ==
    IF \E j \in 1..Len(s) : s[j] \notin Whitespace
      THEN CHOOSE j \in 1..Len(s) :
             s[j] \notin Whitespace /\ \A k \in 1..(j - 1) : s[k] \in Whitespace
      ELSE Len(s) + 1

LastNonWs(s) ==
    IF \E j \in 1..Len(s) : s[j] \notin Whitespace
      THEN CHOOSE j \in 1..Len(s) :
             s[j] \notin Whitespace /\ \A k \in (j + 1)..Len(s) : s[k] \in Whitespace
      ELSE 0

\* s.lstrip(), s.strip()
Lstrip(s) == SubSeq(s, FirstNonWs(s), Len(s))
Strip(s) == SubSeq(s, FirstNonWs(s), LastNonWs(s))

(***************************************************************************)
(* Decoded values.  A Python value is a record tagged by t:                *)
(*   "none" (None), "str" (s), "int" (n), "bool" (b), "list" (items),      *)
(*   "dict" (items: the <<key, value>> pairs in insertion order).          *)
(* "error" stands for json.JSONDecodeError being raised.                   *)
(***************************************************************************)
PyNone == [t |-> "none"]
PyStr(s) == [t |-> "str", s |-> s]
PyInt(n) == [t |-> "int", n |-> n]
PyBool(b) == [t |-> "bool", b |-> b]
PyList(items) == [t |-> "list", items |-> items]
PyDict(items) == [t |-> "dict", items |-> items]
JsonError == [t |-> "error"]

\* d[k] = v on a dict's item list: an existing key keeps its place
DictSet(items, k, v) ==
    IF \E i \in 1..Len(items) : items[i][1] = k
      THEN [i \in 1..Len(items) |-> IF items[i][1] = k THEN <<k, v>> ELSE items[i]]
      ELSE Append(items, <<k, v>>)

\* d.get(k, default)
ItemsGet(items, k, default) ==
    IF \E i \in 1..Len(items) : items[i][1] = k
      THEN items[CHOOSE i \in 1..Len(items) : items[i][1] = k][2]
      ELSE default

DictGet(d, k, default) == ItemsGet(d.items, k, default)

(***************************************************************************)
(* json.loads on the texts of this model: objects, arrays, strings without *)
(* escape sequences, integers, true / false / null, JSON whitespace.       *)
(* A parse step returns [ok, v, next]: the value and the index after it.   *)
(***************************************************************************)
JsonWs == {" ", "\n", "\t", "\r"}
Digits == <<"0", "1", "2", "3", "4", "5", "6", "7", "8", "9">>
IsDigit(c) == \E d \in 1..10 : Digits[d] = c
DigitValue(c) == (CHOOSE d \in 1..10 : Digits[d] = c) - 1
Fail == [ok |-> FALSE, v |-> JsonError, next |-> 0]
Ok(v, next) == [ok |-> TRUE, v |-> v, next |-> next]

\* first index >= i holding no JSON whitespace (Len(s) + 1: none)
SkipWs(s, i) ==
    IF \E j \in i..Len(s) : s[j] \notin JsonWs
      THEN CHOOSE j \in i..Len(s) :
             s[j] \notin JsonWs /\ \A k \in i..(j - 1) : s[k] \in JsonWs
      ELSE IF i > Len(s) THEN i ELSE Len(s) + 1

\* the characters that end the scan of a string: its closing quote, a control
\* character, a backslash
StringEnds == {"\"", "\n", "\t", "\r", "\\"}

\* index of the quote closing the string whose text starts at i (0: the string
\* is unterminated, or holds a control character or a backslash escape, which
\* the texts of this model never use validly)
ClosingQuote(s, i) ==
    IF \E j \in i..Len(s) : s[j] \in StringEnds
      THEN IF s[CHOOSE j \in i..Len(s) :
                  s[j] \in StringEnds /\ \A k \in i..(j - 1) : s[k] \notin StringEnds] = "\""
             THEN CHOOSE j \in i..Len(s) :
                    s[j] \in StringEnds /\ \A k \in i..(j - 1) : s[k] \notin StringEnds
             ELSE 0
      ELSE 0

\* the string whose opening quote is at i and whose closing quote is at j
StringUpTo(s, i, j) ==
    IF j = 0 THEN Fail ELSE Ok(PyStr(SubSeq(s, i + 1, j - 1)), j + 1)

ParseString(s, i) == StringUpTo(s, i, ClosingQuote(s, i + 1))

\* index after the run of digits starting at i
DigitsEnd(s, i) ==
    IF \E j \in i..Len(s) : ~IsDigit(s[j])
      THEN CHOOSE j \in i..Len(s) :
             ~IsDigit(s[j]) /\ \A k \in i..(j - 1) : IsDigit(s[k])
      ELSE IF i > Len(s) THEN i ELSE Len(s) + 1

RECURSIVE DigitsValue(_, _, _)
DigitsValue(s, i, j) ==
    IF j < i THEN 0 ELSE DigitsValue(s, i, j - 1) * 10 + DigitValue(s[j])

\* the integer whose digits are s[b..e-1]
IntUpTo(s, b, e, neg) ==
    IF e = b THEN Fail
    ELSE IF s[b] = "0" /\ e > b + 1 THEN Ok(PyInt(0), b + 1)
    ELSE IF e <= Len(s) /\ s[e] \in {".", "e", "E"} THEN Fail
    ELSE Ok(PyInt(IF neg THEN 0 - DigitsValue(s, b, e - 1)
                         ELSE DigitsValue(s, b, e - 1)), e)

\* -?(0|[1-9][0-9]*) not followed by a fraction or an exponent
ParseInt(s, i) ==
    IF s[i] = "-" THEN IntUpTo(s, i + 1, DigitsEnd(s, i + 1), TRUE)
    ELSE IntUpTo(s, i, DigitsEnd(s, i), FALSE)

ParseLiteral(s, i) ==
    IF OccursAt(s, <<"t", "r", "u", "e">>, i) THEN Ok(PyBool(TRUE), i + 4)
    ELSE IF OccursAt(s, <<"f", "a", "l", "s", "e">>, i) THEN Ok(PyBool(FALSE), i + 5)
    ELSE IF OccursAt(s, <<"n", "u", "l", "l">>, i) THEN Ok(PyNone, i + 4)
    ELSE Fail

RECURSIVE ParseValue(_, _)
RECURSIVE ParseObject(_, _)
RECURSIVE ParseArray(_, _)
RECURSIVE ParseMembers(_, _, _)
RECURSIVE MemberColon(_, _, _)
RECURSIVE MemberValue(_, _, _, _)
RECURSIVE MemberEnd(_, _, _, _)
RECURSIVE MemberNext(_, _, _)
RECURSIVE ParseElements(_, _, _)
RECURSIVE ElementEnd(_, _, _)
RECURSIVE ElementNext(_, _, _)

\* the value starting at i (s[i] is not whitespace)
ParseValue(s, i) ==
    IF i > Len(s) THEN Fail
    ELSE IF s[i] = "{" THEN ParseObject(s, SkipWs(s, i + 1))
    ELSE IF s[i] = "[" THEN ParseArray(s, SkipWs(s, i + 1))
    ELSE IF s[i] = "\"" THEN ParseString(s, i)
    ELSE IF s[i] = "-" \/ IsDigit(s[i]) THEN ParseInt(s, i)
    ELSE ParseLiteral(s, i)

\* after "{": j is the first index that holds no whitespace
ParseObject(s, j) ==
    IF j <= Len(s) /\ s[j] = "}" THEN Ok(PyDict(<<>>), j + 1)
    ELSE ParseMembers(s, j, <<>>)

\* after "[": j is the first index that holds no whitespace
ParseArray(s, j) ==
    IF j <= Len(s) /\ s[j] = "]" THEN Ok(PyList(<<>>), j + 1)
    ELSE ParseElements(s, j, <<>>)

\* "key" : value, then "," and more members, or "}"
ParseMembers(s, i, acc) ==
    IF i > Len(s) \/ s[i] # "\"" THEN Fail
    ELSE MemberColon(s, ParseString(s, i), acc)

\* k is the parsed key
MemberColon(s, k, acc) ==
    IF ~k.ok THEN Fail ELSE MemberValue(s, k, SkipWs(s, k.next), acc)

\* c is where the colon must be
MemberValue(s, k, c, acc) ==
    IF c > Len(s) \/ s[c] # ":" THEN Fail
    ELSE MemberEnd(s, k, ParseValue(s, SkipWs(s, c + 1)), acc)

\* v is the parsed value
MemberEnd(s, k, v, acc) ==
    IF ~v.ok THEN Fail
    ELSE MemberNext(s, SkipWs(s, v.next), DictSet(acc, k.v.s, v.v))

\* n is where "," or "}" must be
MemberNext(s, n, items) ==
    IF n > Len(s) THEN Fail
    ELSE IF s[n] = "}" THEN Ok(PyDict(items), n + 1)
    ELSE IF s[n] = "," THEN ParseMembers(s, SkipWs(s, n + 1), items)
    ELSE Fail

\* value, then "," and more elements, or "]"
ParseElements(s, i, acc) == ElementEnd(s, ParseValue(s, i), acc)

\* v is the parsed element
ElementEnd(s, v, acc) ==
    IF ~v.ok THEN Fail
    ELSE ElementNext(s, SkipWs(s, v.next), Append(acc, v.v))

\* n is where "," or "]" must be
ElementNext(s, n, items) ==
    IF n > Len(s) THEN Fail
    ELSE IF s[n] = "]" THEN Ok(PyList(items), n + 1)
    ELSE IF s[n] = "," THEN ParseElements(s, SkipWs(s, n + 1), items)
    ELSE Fail

\* r is the parsed value: nothing but whitespace may follow it
WholeText(s, r) ==
    IF r.ok /\ SkipWs(s, r.next) = Len(s) + 1 THEN r.v ELSE JsonError

\* json.loads(s): the decoded value, or JsonError for json.JSONDecodeError
JsonLoads(s) == WholeText(s, ParseValue(s, SkipWs(s, 1)))

(***************************************************************************)
(* Capture runner: run() and its nested cleanup()                          *)
(***************************************************************************)
Listeners == 1..MaxProxies

\* exit codes a target command can return (subprocess: 0..255, or -signum
\* when the command was killed by a signal)
CmdCodes == {0, 1, 3, 255, -15}

\* the exit status the operating system reports for sys.exit(n)
ExitStatusOf(n) == n % 256

\* range of a sequence
Range(s) == {s[i] : i \in 1..Len(s)}

InitHist ==
    [ polledAlive  |-> {},      \* listeners whose poll() returned None
      foundDead    |-> FALSE,   \* a poll() returned an exit code
      launched     |-> FALSE,   \* subprocess.run(target_cmd) was started
      startedAtLaunch |-> {},   \* listeners started when the command was launched
      termCalled   |-> {},      \* listeners on which terminate() was called
      waited       |-> {},      \* listeners on which wait() returned
      reported     |-> FALSE,   \* "Done. Traffic saved to: ..." was printed
      cleanupsAfterCmd |-> 0,   \* cleanup() calls completed after the command returned
      sigAtLaunch  |-> 0,       \* signals delivered before the command was launched
      sigRegistered |-> FALSE ] \* a signal arrived when procs was not empty

InitRunner ==
    /\ pc = "which"
    /\ nprox \in 1..MaxProxies
    /\ hasCmd \in BOOLEAN
    /\ procs = <<>>
    /\ fresh = 0
    /\ lst = [i \in Listeners |-> "none"]
    /\ termSent = {}
    /\ frames = <<>>
    /\ installed = FALSE
    /\ sigs = 0
    /\ idx = 0
    /\ cmdRc = <<>>
    /\ exitStatus = <<>>
    /\ endKind = "none"
    /\ hist = InitHist

Ended == endKind # "none"

\* run() executes its own code only when no cleanup() call is active
MainRuns == frames = <<>> /\ ~Ended

\* a new activation of cleanup(): first loop (terminate), index 1
NewFrame == [ph |-> "term", i |-> 1]

\* runner.py:82-88  shutil.which("mitmdump"); missing: sys.exit(1)
CheckMitmdump ==
    /\ UNCHANGED NotRunner
    /\ MainRuns /\ pc = "which"
    /\ \/ /\ pc' = "install"
          /\ UNCHANGED <<exitStatus, endKind>>
       \/ /\ pc' = "ended"
          /\ exitStatus' = <<ExitStatusOf(1)>>
          /\ endKind' = "exit"
    /\ UNCHANGED <<nprox, hasCmd, procs, fresh, lst, termSent, frames,
                   installed, sigs, idx, cmdRc, hist>>

\* runner.py:122-123  signal.signal(SIGINT, cleanup); signal.signal(SIGTERM, cleanup)
InstallHandlers ==
    /\ UNCHANGED NotRunner
    /\ MainRuns /\ pc = "install"
    /\ installed' = TRUE
    /\ pc' = "popen"
    /\ idx' = 1
    /\ UNCHANGED <<nprox, hasCmd, procs, fresh, lst, termSent, frames,
                   sigs, cmdRc, exitStatus, endKind, hist>>

\* runner.py:126-136  one iteration of the start loop: subprocess.Popen(cmd, env=env)
\* returns a running child, or raises (OSError); loop exhausted: time.sleep(2)
StartListener ==
    /\ UNCHANGED NotRunner
    /\ MainRuns /\ pc = "popen"
    /\ IF idx > nprox
         THEN /\ pc' = "sleep"
              /\ UNCHANGED <<fresh, lst>>
         ELSE \/ /\ fresh' = idx
                 /\ lst' = [lst EXCEPT ![idx] = "running"]
                 /\ pc' = "append"
              \/ /\ pc' = "except"
                 /\ UNCHANGED <<fresh, lst>>
    /\ UNCHANGED <<nprox, hasCmd, procs, termSent, frames, installed, sigs,
                   idx, cmdRc, exitStatus, endKind, hist>>

\* runner.py:136  procs.append(<the Popen object>)
AppendListener ==
    /\ UNCHANGED NotRunner
    /\ MainRuns /\ pc = "append"
    /\ procs' = Append(procs, fresh)
    /\ fresh' = 0
    /\ idx' = idx + 1
    /\ pc' = "popen"
    /\ UNCHANGED <<nprox, hasCmd, lst, termSent, frames, installed, sigs,
                   cmdRc, exitStatus, endKind, hist>>

\* runner.py:138  time.sleep(2) (resumed after a handler returns)
Settle ==
    /\ UNCHANGED NotRunner
    /\ MainRuns /\ pc = "sleep"
    /\ pc' = "poll"
    /\ idx' = 1
    /\ UNCHANGED <<nprox, hasCmd, procs, fresh, lst, termSent, frames,
                   installed, sigs, cmdRc, exitStatus, endKind, hist>>

\* PollListener with the liveness test dropped (a dead listener is passed over)
PollListener_NoCheck ==
    /\ UNCHANGED NotRunner
    /\ MainRuns /\ pc = "poll"
    /\ IF idx > Len(procs)
         THEN /\ pc' = "branch"
              /\ UNCHANGED <<idx, hist>>
         ELSE LET p == procs[idx] IN
              /\ idx' = idx + 1
              /\ hist' = IF lst[p] = "running"
                           THEN [hist EXCEPT !.polledAlive = @ \cup {p}]
                           ELSE hist
              /\ UNCHANGED pc
    /\ UNCHANGED <<nprox, hasCmd, procs, fresh, lst, termSent, frames, installed,
                   sigs, cmdRc, exitStatus, endKind>>

\* runner.py:140-148  one iteration of the liveness check: p.poll() is not None
\* -> error message, cleanup(), sys.exit(1); loop exhausted: "All proxies are running."
PollListener ==
    /\ UNCHANGED NotRunner
    /\ MainRuns /\ pc = "poll"
    /\ IF idx > Len(procs)
         THEN /\ pc' = "branch"
              /\ UNCHANGED <<lst, frames, idx, hist>>
         ELSE LET p == procs[idx] IN
              IF lst[p] = "running"
                THEN /\ idx' = idx + 1
                     /\ hist' = [hist EXCEPT !.polledAlive = @ \cup {p}]
                     /\ UNCHANGED <<pc, lst, frames>>
                ELSE /\ lst' = [lst EXCEPT ![p] = "reaped"]
                     /\ hist' = [hist EXCEPT !.foundDead = TRUE]
                     /\ frames' = <<NewFrame>>
                     /\ pc' = "exit1"
                     /\ UNCHANGED idx
    /\ UNCHANGED <<nprox, hasCmd, procs, fresh, termSent, installed, sigs,
                   cmdRc, exitStatus, endKind>>

\* runner.py:148  sys.exit(1) after cleanup() returned (SystemExit is not an
\* Exception, the except clause does not catch it)
ExitAfterDead ==
    /\ UNCHANGED NotRunner
    /\ MainRuns /\ pc = "exit1"
    /\ pc' = "ended"
    /\ exitStatus' = <<ExitStatusOf(1)>>
    /\ endKind' = "exit"
    /\ UNCHANGED <<nprox, hasCmd, procs, fresh, lst, termSent, frames,
                   installed, sigs, idx, cmdRc, hist>>

\* runner.py:152-157  if target_cmd: subprocess.run(target_cmd, env=target_env)
\* starts the command (or raises, e.g. FileNotFoundError)
\* runner.py:160-167  else: print the overrides, then wait for the listeners
Branch ==
    /\ UNCHANGED NotRunner
    /\ MainRuns /\ pc = "branch"
    /\ IF hasCmd
         THEN \/ /\ pc' = "cmd"
                 /\ hist' = [hist EXCEPT !.launched = TRUE,
                                         !.startedAtLaunch = {i \in Listeners : lst[i] # "none"},
                                         !.sigAtLaunch = sigs]
                 /\ UNCHANGED idx
              \/ /\ pc' = "except"
                 /\ UNCHANGED <<idx, hist>>
         ELSE /\ pc' = "wait"
              /\ idx' = 1
              /\ UNCHANGED hist
    /\ UNCHANGED <<nprox, hasCmd, procs, fresh, lst, termSent, frames,
                   installed, sigs, cmdRc, exitStatus, endKind>>

\* runner.py:157-158  subprocess.run returns with the command's returncode; cleanup()
CommandReturns ==
    /\ UNCHANGED NotRunner
    /\ MainRuns /\ pc = "cmd"
    /\ \E rc \in CmdCodes : cmdRc' = <<rc>>
    /\ frames' = <<NewFrame>>
    /\ pc' = "exitrc"
    /\ UNCHANGED <<nprox, hasCmd, procs, fresh, lst, termSent, installed, sigs,
                   idx, exitStatus, endKind, hist>>

\* ExitWithCommandCode exiting with a fixed status instead of the command's
ExitWithCommandCode_Zero ==
    /\ UNCHANGED NotRunner
    /\ MainRuns /\ pc = "exitrc"
    /\ pc' = "ended"
    /\ exitStatus' = <<ExitStatusOf(0)>>
    /\ endKind' = "exit"
    /\ UNCHANGED <<nprox, hasCmd, procs, fresh, lst, termSent, frames,
                   installed, sigs, idx, cmdRc, hist>>

\* runner.py:159  sys.exit(result.returncode)
ExitWithCommandCode ==
    /\ UNCHANGED NotRunner
    /\ MainRuns /\ pc = "exitrc"
    /\ pc' = "ended"
    /\ exitStatus' = <<ExitStatusOf(cmdRc[1])>>
    /\ endKind' = "exit"
    /\ UNCHANGED <<nprox, hasCmd, procs, fresh, lst, termSent, frames,
                   installed, sigs, idx, cmdRc, hist>>

\* WaitListener whose p.wait() does not block on a running listener
WaitListener_NoBlock ==
    /\ UNCHANGED NotRunner
    /\ MainRuns /\ pc = "wait"
    /\ IF idx > Len(procs)
         THEN /\ pc' = "ended"
              /\ exitStatus' = <<ExitStatusOf(0)>>
              /\ endKind' = "return"
              /\ UNCHANGED <<idx, hist>>
         ELSE /\ hist' = [hist EXCEPT !.waited = @ \cup {procs[idx]}]
              /\ idx' = idx + 1
              /\ UNCHANGED <<pc, exitStatus, endKind>>
    /\ UNCHANGED <<nprox, hasCmd, procs, fresh, lst, termSent, frames, installed,
                   sigs, cmdRc>>

\* runner.py:166-167  for p in procs: p.wait()   (one iteration; blocks while the
\* listener runs); loop exhausted: run() returns
WaitListener ==
    /\ UNCHANGED NotRunner
    /\ MainRuns /\ pc = "wait"
    /\ IF idx > Len(procs)
         THEN /\ pc' = "ended"
              /\ exitStatus' = <<ExitStatusOf(0)>>
              /\ endKind' = "return"
              /\ UNCHANGED <<lst, idx, hist>>
         ELSE LET p == procs[idx] IN
              /\ lst[p] \in {"exited", "reaped"}
              /\ lst' = [lst EXCEPT ![p] = "reaped"]
              /\ hist' = [hist EXCEPT !.waited = @ \cup {p}]
              /\ idx' = idx + 1
              /\ UNCHANGED <<pc, exitStatus, endKind>>
    /\ UNCHANGED <<nprox, hasCmd, procs, fresh, termSent, frames, installed,
                   sigs, cmdRc>>

\* HandleException without the cleanup() call
HandleException_NoCleanup ==
    /\ UNCHANGED NotRunner
    /\ MainRuns /\ pc = "except"
    /\ pc' = "reraise"
    /\ UNCHANGED <<nprox, hasCmd, procs, fresh, lst, termSent, frames, installed,
                   sigs, idx, cmdRc, exitStatus, endKind, hist>>

\* runner.py:169-170  except Exception: cleanup()
HandleException ==
    /\ UNCHANGED NotRunner
    /\ MainRuns /\ pc = "except"
    /\ frames' = <<NewFrame>>
    /\ pc' = "reraise"
    /\ UNCHANGED <<nprox, hasCmd, procs, fresh, lst, termSent, installed, sigs,
                   idx, cmdRc, exitStatus, endKind, hist>>

\* runner.py:171  raise  (the uncaught exception ends the process with status 1)
Reraise ==
    /\ UNCHANGED NotRunner
    /\ MainRuns /\ pc = "reraise"
    /\ pc' = "ended"
    /\ exitStatus' = <<ExitStatusOf(1)>>
    /\ endKind' = "raise"
    /\ UNCHANGED <<nprox, hasCmd, procs, fresh, lst, termSent, frames,
                   installed, sigs, idx, cmdRc, hist>>

\* runner.py:113-120  one step of the innermost active cleanup():
\*   for p in procs: p.terminate()   (no signal is sent to a reaped child)
\*   for p in procs: p.wait()        (blocks while the child runs)
\*   print("Done. Traffic saved to: ...") and return
CleanupStep ==
    /\ UNCHANGED NotRunner
    /\ frames # <<>> /\ ~Ended
    /\ LET n == Len(frames)
           f == frames[n]
           rest == SubSeq(frames, 1, n - 1)
       IN
       IF f.ph = "term"
         THEN IF f.i > Len(procs)
                THEN /\ frames' = Append(rest, [ph |-> "wait", i |-> 1])
                     /\ UNCHANGED <<lst, termSent, hist>>
                ELSE LET p == procs[f.i] IN
                     /\ termSent' = IF lst[p] = "reaped" THEN termSent
                                    ELSE termSent \cup {p}
                     /\ hist' = [hist EXCEPT !.termCalled = @ \cup {p}]
                     /\ frames' = Append(rest, [f EXCEPT !.i = @ + 1])
                     /\ UNCHANGED lst
         ELSE IF f.i > Len(procs)
                THEN /\ frames' = rest
                     /\ hist' = [hist EXCEPT
                                   !.reported = TRUE,
                                   !.cleanupsAfterCmd =
                                       IF cmdRc # <<>> /\ n = 1 THEN 1 ELSE @]
                     /\ UNCHANGED <<lst, termSent>>
                ELSE LET p == procs[f.i] IN
                     /\ lst[p] \in {"exited", "reaped"}
                     /\ lst' = [lst EXCEPT ![p] = "reaped"]
                     /\ hist' = [hist EXCEPT !.waited = @ \cup {p}]
                     /\ frames' = Append(rest, [f EXCEPT !.i = @ + 1])
                     /\ UNCHANGED termSent
    /\ UNCHANGED <<pc, nprox, hasCmd, procs, fresh, installed, sigs, idx,
                   cmdRc, exitStatus, endKind>>

\* runner.py:122-123  SIGINT or SIGTERM arrives: the interpreter calls
\* cleanup(signum, frame) on top of whatever is executing, then resumes it
Interrupt ==
    /\ UNCHANGED NotRunner
    /\ installed /\ ~Ended
    /\ sigs < MaxSignals
    /\ sigs' = sigs + 1
    /\ frames' = Append(frames, NewFrame)
    /\ hist' = [hist EXCEPT !.sigRegistered = @ \/ procs # <<>>]
    /\ UNCHANGED <<pc, nprox, hasCmd, procs, fresh, lst, termSent, installed,
                   idx, cmdRc, exitStatus, endKind>>

\* a listener (mitmdump) exits on its own: bind failure, crash
ListenerDies ==
    /\ UNCHANGED NotRunner
    /\ ~Ended
    /\ \E i \in Listeners :
         /\ lst[i] = "running" /\ i \notin termSent
         /\ lst' = [lst EXCEPT ![i] = "exited"]
    /\ UNCHANGED <<pc, nprox, hasCmd, procs, fresh, termSent, frames, installed,
                   sigs, idx, cmdRc, exitStatus, endKind, hist>>

\* a listener that received SIGTERM shuts down
ListenerTerminates ==
    /\ UNCHANGED NotRunner
    /\ \E i \in Listeners :
         /\ lst[i] = "running" /\ i \in termSent
         /\ lst' = [lst EXCEPT ![i] = "exited"]
    /\ UNCHANGED <<pc, nprox, hasCmd, procs, fresh, termSent, frames, installed,
                   sigs, idx, cmdRc, exitStatus, endKind, hist>>

RunnerStep ==
    \/ CheckMitmdump
    \/ InstallHandlers
    \/ StartListener
    \/ AppendListener
    \/ Settle
    \/ PollListener
    \/ ExitAfterDead
    \/ Branch
    \/ CommandReturns
    \/ ExitWithCommandCode
    \/ WaitListener
    \/ HandleException
    \/ Reraise
    \/ CleanupStep

\* a run not started (the component is not part of the specification at hand)
RunnerParked ==
    /\ pc = "which" /\ nprox = 1 /\ hasCmd = FALSE /\ procs = <<>> /\ fresh = 0
    /\ lst = [i \in Listeners |-> "none"] /\ termSent = {} /\ frames = <<>>
    /\ installed = FALSE /\ sigs = 0 /\ idx = 0 /\ cmdRc = <<>>
    /\ exitStatus = <<>> /\ endKind = "none" /\ hist = InitHist

(***************************************************************************)
(* Capture addon: response() appending one line to the shared log          *)
(***************************************************************************)
Writers == 1..MaxWriters

\* piece c of the line of flow e of process w; a line is whole in the file when
\* its pieces 1..MaxPieces stand there next to each other in order
Piece(w, e, c) == [w |-> w, e |-> e, c |-> c]
LinePieces(w, e) == [c \in 1..MaxPieces |-> Piece(w, e, c)]

InitLog ==
    /\ wpc = [w \in Writers |-> "idle"]
    /\ lockHolder = 0
    /\ file = <<>>
    /\ buf = [w \in Writers |-> <<>>]
    /\ completed = [w \in Writers |-> 0]

LogParked ==
    /\ wpc = [w \in Writers |-> "idle"]
    /\ lockHolder = 0
    /\ file = <<>>
    /\ buf = [w \in Writers |-> <<>>]
    /\ completed = [w \in Writers |-> 0]

\* capture_addon.py:87-89  a flow completes: the entry is serialised and the log
\* is opened with open(OUTPUT, "a") (append mode: nothing is truncated)
Open ==
    /\ UNCHANGED NotLog
    /\ \E w \in Writers :
         /\ wpc[w] = "idle" /\ completed[w] < MaxEntries
         /\ wpc' = [wpc EXCEPT ![w] = "opened"]
    /\ UNCHANGED <<lockHolder, file, buf, completed>>

\* Lock that does not wait for the lock to be free
Lock_NoExclusion ==
    /\ UNCHANGED NotLog
    /\ \E w \in Writers :
         /\ wpc[w] = "opened"
         /\ lockHolder' = w
         /\ wpc' = [wpc EXCEPT ![w] = "locked"]
    /\ UNCHANGED <<file, buf, completed>>

\* capture_addon.py:90  fcntl.flock(f, fcntl.LOCK_EX): blocks while another
\* process holds the lock
Lock ==
    /\ UNCHANGED NotLog
    /\ \E w \in Writers :
         /\ wpc[w] = "opened"
         /\ lockHolder = 0
         /\ lockHolder' = w
         /\ wpc' = [wpc EXCEPT ![w] = "locked"]
    /\ UNCHANGED <<file, buf, completed>>

\* capture_addon.py:91  f.write(line): the line enters the file object's buffer;
\* the io layer may hand any prefix of it to the file at once (a line larger
\* than the buffer), each piece being appended at the end of the file (O_APPEND)
Write ==
    /\ UNCHANGED NotLog
    /\ \E w \in Writers :
         /\ wpc[w] = "locked"
         /\ \E k \in 0..MaxPieces :
              LET line == LinePieces(w, completed[w] + 1) IN
              /\ file' = file \o SubSeq(line, 1, k)
              /\ buf' = [buf EXCEPT ![w] = SubSeq(line, k + 1, MaxPieces)]
         /\ wpc' = [wpc EXCEPT ![w] = "written"]
    /\ UNCHANGED <<lockHolder, completed>>

\* capture_addon.py:92  f.flush(): what is left in the buffer is appended
Flush ==
    /\ UNCHANGED NotLog
    /\ \E w \in Writers :
         /\ wpc[w] = "written"
         /\ file' = file \o buf[w]
         /\ buf' = [buf EXCEPT ![w] = <<>>]
         /\ completed' = [completed EXCEPT ![w] = @ + 1]
         /\ wpc' = [wpc EXCEPT ![w] = "flushed"]
    /\ UNCHANGED lockHolder

\* capture_addon.py:93  fcntl.flock(f, fcntl.LOCK_UN)
Unlock ==
    /\ UNCHANGED NotLog
    /\ \E w \in Writers :
         /\ wpc[w] = "flushed"
         /\ lockHolder' = IF lockHolder = w THEN 0 ELSE lockHolder
         /\ wpc' = [wpc EXCEPT ![w] = "unlocked"]
    /\ UNCHANGED <<file, buf, completed>>

\* capture_addon.py:89  end of the with block: f.close() (the buffer is empty)
Close ==
    /\ UNCHANGED NotLog
    /\ \E w \in Writers :
         /\ wpc[w] = "unlocked"
         /\ file' = file \o buf[w]
         /\ buf' = [buf EXCEPT ![w] = <<>>]
         /\ wpc' = [wpc EXCEPT ![w] = "idle"]
    /\ UNCHANGED <<lockHolder, completed>>


(***************************************************************************)
(* SSE decoder: parse_sse_events (sse.py)                                  *)
(***************************************************************************)
EventPrefix == <<"e", "v", "e", "n", "t", ":", " ">>
DataSpacePrefix == <<"d", "a", "t", "a", ":", " ">>
DataPrefix == <<"d", "a", "t", "a", ":">>

\* ScanLines that knows the data prefix with the space only
RECURSIVE ScanLines_SpaceOnly(_, _, _)
ScanLines_SpaceOnly(lines, i, acc) ==
    IF i > Len(lines) THEN acc
    ELSE ScanLines_SpaceOnly(lines, i + 1,
            IF StartsWith(lines[i], EventPrefix)
              THEN [acc EXCEPT !.event_type = From(lines[i], 7)]
            ELSE IF StartsWith(lines[i], DataSpacePrefix)
              THEN [acc EXCEPT !.data_lines = Append(@, From(lines[i], 6))]
            ELSE acc)

\* sse.py:45-51  the loop over the lines of a block; acc holds event_type and data_lines
RECURSIVE ScanLines(_, _, _)
ScanLines(lines, i, acc) ==
    IF i > Len(lines) THEN acc
    ELSE LET line == lines[i] IN
         ScanLines(lines, i + 1,
            IF StartsWith(line, EventPrefix)
              THEN [acc EXCEPT !.event_type = From(line, 7)]
            ELSE IF StartsWith(line, DataSpacePrefix)
              THEN [acc EXCEPT !.data_lines = Append(@, From(line, 6))]
            ELSE IF StartsWith(line, DataPrefix)
              THEN [acc EXCEPT !.data_lines = Append(@, From(line, 5))]
            ELSE acc)

\* DecodeData that lets json.JSONDecodeError escape (no except clause)
DecodeData_NoExcept(data_str) ==
    IF data_str = <<>> THEN PyNone ELSE JsonLoads(data_str)

\* sse.py:57-59  except json.JSONDecodeError: data = data_str
ExceptJSONDecodeError(v, data_str) ==
    IF v = JsonError THEN PyStr(data_str) ELSE v

\* DecodeData that starts from data = data_str instead of data = None
DecodeData_EmptyString(data_str) ==
    IF data_str = <<>> THEN PyStr(<<>>)
    ELSE ExceptJSONDecodeError(JsonLoads(data_str), data_str)

\* sse.py:54-59  data = None; if data_str: try json.loads, except JSONDecodeError: data_str
DecodeData(data_str) ==
    IF data_str = <<>> THEN PyNone
    ELSE ExceptJSONDecodeError(JsonLoads(data_str), data_str)

\* FieldsEvent without the test of line 52: every non-empty block appends
FieldsEvent_Always(r) ==
    <<[event |-> r.event_type, data |-> DecodeData(Join(r.data_lines, NL))]>>

\* FieldsEvent that appends an event for a block with data lines only
FieldsEvent_DataOnly(r) ==
    IF r.data_lines # <<>>
      THEN <<[event |-> r.event_type, data |-> DecodeData(Join(r.data_lines, NL))]>>
      ELSE <<>>

\* sse.py:53-60  r holds event_type and data_lines of the block
FieldsEvent(r) ==
    IF r.event_type # <<>> \/ r.data_lines # <<>>
      THEN <<[event |-> r.event_type, data |-> DecodeData(Join(r.data_lines, NL))]>>
      ELSE <<>>

\* sse.py:41-51  block is the stripped block
StrippedBlockEvents(block) ==
    IF block = <<>> THEN <<>>
    ELSE FieldsEvent(ScanLines(Split(block, NL), 1,
                               [event_type |-> <<>>, data_lines |-> <<>>]))

\* sse.py:39-60  the events one block contributes (none or one)
BlockEvents(block) == StrippedBlockEvents(Strip(block))

RECURSIVE EventsOfBlocks(_, _)
EventsOfBlocks(blocks, i) ==
    IF i > Len(blocks) THEN <<>>
    ELSE BlockEvents(blocks[i]) \o EventsOfBlocks(blocks, i + 1)

\* the list returned, or raised: an exception left the function instead
Returned(events) ==
    [ raised |-> \E i \in 1..Len(events) : events[i].data = JsonError,
      events |-> events ]

\* sse.py:17-61  parse_sse_events(raw)
parse_sse_events(raw) == Returned(EventsOfBlocks(Split(raw, NLNL), 1))

(***************************************************************************)
(* Response renderer: format_response_body (openai_responses.py)           *)
(***************************************************************************)
TextDeltaType == <<"r", "e", "s", "p", "o", "n", "s", "e", ".", "o", "u", "t", "p", "u", "t", "_", "t", "e", "x", "t", ".", "d", "e", "l", "t", "a">>
ReasoningDeltaType == <<"r", "e", "s", "p", "o", "n", "s", "e", ".", "r", "e", "a", "s", "o", "n", "i", "n", "g", "_", "s", "u", "m", "m", "a", "r", "y", "_", "t", "e", "x", "t", ".", "d", "e", "l", "t", "a">>
FunctionCallDoneType == <<"r", "e", "s", "p", "o", "n", "s", "e", ".", "f", "u", "n", "c", "t", "i", "o", "n", "_", "c", "a", "l", "l", "_", "a", "r", "g", "u", "m", "e", "n", "t", "s", ".", "d", "o", "n", "e">>
CompletedType == <<"r", "e", "s", "p", "o", "n", "s", "e", ".", "c", "o", "m", "p", "l", "e", "t", "e", "d">>
SsePrefix == <<"e", "v", "e", "n", "t", ":">>
KeyDelta == <<"d", "e", "l", "t", "a">>
KeyName == <<"n", "a", "m", "e">>
KeyCallId == <<"c", "a", "l", "l", "_", "i", "d">>
KeyArguments == <<"a", "r", "g", "u", "m", "e", "n", "t", "s">>
KeyResponse == <<"r", "e", "s", "p", "o", "n", "s", "e">>
KeyUsage == <<"u", "s", "a", "g", "e">>
Unnamed == <<"(", "u", "n", "n", "a", "m", "e", "d", ")">>

InitParts ==
    [ output_text_parts |-> <<>>, reasoning_text_parts |-> <<>>,
      tool_calls |-> <<>>, usage |-> PyNone, raised |-> FALSE ]

\* AssembleStep that takes the delta of every delta-carrying event as output text
AssembleStep_AnyDelta(acc, e) ==
    IF e.data.t # "dict" THEN acc
    ELSE IF e.event = TextDeltaType \/ e.event = ReasoningDeltaType
      THEN [acc EXCEPT !.output_text_parts = Append(@, DictGet(e.data, KeyDelta, PyStr(<<>>)))]
    ELSE acc

\* openai_responses.py:211-229  one iteration of the loop over the events
AssembleStep(acc, e) ==
    IF e.data.t # "dict" THEN acc
    ELSE IF e.event = TextDeltaType
      THEN [acc EXCEPT !.output_text_parts = Append(@, DictGet(e.data, KeyDelta, PyStr(<<>>)))]
    ELSE IF e.event = ReasoningDeltaType
      THEN [acc EXCEPT !.reasoning_text_parts = Append(@, DictGet(e.data, KeyDelta, PyStr(<<>>)))]
    ELSE IF e.event = FunctionCallDoneType
      THEN [acc EXCEPT !.tool_calls = Append(@,
               [ name |-> DictGet(e.data, KeyName, PyStr(Unnamed)),
                 call_id |-> DictGet(e.data, KeyCallId, PyStr(<<>>)),
                 arguments |-> DictGet(e.data, KeyArguments, PyStr(<<>>)) ])]
    ELSE IF e.event = CompletedType
      THEN LET resp == DictGet(e.data, KeyResponse, PyDict(<<>>)) IN
           IF resp.t # "dict" THEN [acc EXCEPT !.raised = TRUE]
           ELSE [acc EXCEPT !.usage = DictGet(resp, KeyUsage, PyNone)]
    ELSE acc

RECURSIVE Assemble(_, _, _)
Assemble(events, i, acc) ==
    IF i > Len(events) \/ acc.raised THEN acc
    ELSE Assemble(events, i + 1, AssembleStep(acc, events[i]))

\* "".join(parts): the joined text, wrapped; <<>> when a part is no str (TypeError)
RECURSIVE ConcatStrs(_, _)
ConcatStrs(parts, i) ==
    IF i > Len(parts) THEN <<>> ELSE parts[i].s \o ConcatStrs(parts, i + 1)

AllStr(parts) == \A i \in 1..Len(parts) : parts[i].t = "str"

\* Counter(...).most_common(): counts in first-encounter order, then ordered
\* by decreasing count, equal counts keeping their encounter order
RECURSIVE CountTypes(_, _, _)
CountTypes(events, i, items) ==
    IF i > Len(events) THEN items
    ELSE CountTypes(events, i + 1,
                    DictSet(items, events[i].event, ItemsGet(items, events[i].event, 0) + 1))

\* the place of item i when the items are ordered by decreasing count, equal
\* counts keeping their order (sorted(..., reverse=True) is stable)
RankByCount(items, i) ==
    1 + Cardinality({j \in 1..Len(items) :
                        \/ items[j][2] > items[i][2]
                        \/ items[j][2] = items[i][2] /\ j < i})

MostCommon(items) ==
    [p \in 1..Len(items) |-> items[CHOOSE i \in 1..Len(items) : RankByCount(items, i) = p]]

\* openai_responses.py:231-287  the Markdown text, kept as its parts: an absent
\* block is <<>>, a present one <<text>>
SummaryOfParts(body, events, acc) ==
    IF acc.raised \/ ~AllStr(acc.output_text_parts) \/ ~AllStr(acc.reasoning_text_parts)
      THEN [kind |-> "raise"]
      ELSE [ kind |-> "sse",
             nbytes |-> Len(body),
             nevents |-> Len(events),
             event_type_counts |-> MostCommon(CountTypes(events, 1, <<>>)),
             output_text |-> IF acc.output_text_parts = <<>> THEN <<>>
                             ELSE <<ConcatStrs(acc.output_text_parts, 1)>>,
             reasoning_text |-> IF acc.reasoning_text_parts = <<>> THEN <<>>
                                ELSE <<ConcatStrs(acc.reasoning_text_parts, 1)>>,
             tool_calls |-> acc.tool_calls,
             usage |-> acc.usage ]

\* openai_responses.py:205-229  parsed is what parse_sse_events gave
SummaryOfParsed(body, parsed) ==
    IF parsed.raised THEN [kind |-> "raise"]
    ELSE SummaryOfParts(body, parsed.events, Assemble(parsed.events, 1, InitParts))

\* openai_responses.py:190-287  the summary of an SSE body
SseSummary(body) == SummaryOfParsed(body, parse_sse_events(body))

\* openai_responses.py:165-287  format_response_body(body, status_code); the
\* status code is not used
format_response_body(body) ==
    IF body.t = "none" THEN [kind |-> "no body"]
    ELSE IF body.t = "dict" THEN [kind |-> "json", body |-> body]
    ELSE IF body.t # "str" THEN [kind |-> "raw", body |-> body]
    ELSE IF ~StartsWith(Lstrip(body.s), SsePrefix) THEN [kind |-> "raw", body |-> body]
    ELSE SseSummary(body.s)

(***************************************************************************)
(* An upstream producing an event stream, then the decoder and the         *)
(* renderer applied to the body                                            *)
(***************************************************************************)
\* text-delta decoded in three renderings of the data field:
\* "data: <json>", "data:<json>", and the JSON spread over two data lines
DeltaBlocks ==
    << [text |-> <<"e", "v", "e", "n", "t", ":", " ", "r", "e", "s", "p", "o", "n", "s", "e", ".", "o", "u", "t", "p", "u", "t", "_", "t", "e", "x", "t", ".", "d", "e", "l", "t", "a", "\n", "d", "a", "t", "a", ":", " ", "{", "\"", "d", "e", "l", "t", "a", "\"", ":", "\"", "H", "e", "\"", "}", "\n", "\n">>,
        frag |-> <<"H", "e">>],
       [text |-> <<"e", "v", "e", "n", "t", ":", " ", "r", "e", "s", "p", "o", "n", "s", "e", ".", "o", "u", "t", "p", "u", "t", "_", "t", "e", "x", "t", ".", "d", "e", "l", "t", "a", "\n", "d", "a", "t", "a", ":", "{", "\"", "d", "e", "l", "t", "a", "\"", ":", "\"", "l", "l", "o", "\"", "}", "\n", "\n">>,
        frag |-> <<"l", "l", "o">>],
       [text |-> <<"e", "v", "e", "n", "t", ":", " ", "r", "e", "s", "p", "o", "n", "s", "e", ".", "o", "u", "t", "p", "u", "t", "_", "t", "e", "x", "t", ".", "d", "e", "l", "t", "a", "\n", "d", "a", "t", "a", ":", " ", "{", "\"", "d", "e", "l", "t", "a", "\"", ":", "\n", "d", "a", "t", "a", ":", " ", "\"", "\"", "}", "\n", "\n">>,
        frag |-> <<>>] >>

\* decoded of other types: a reasoning delta, an event with no data, an event
\* with no event line
OtherBlocks ==
    << <<"e", "v", "e", "n", "t", ":", " ", "r", "e", "s", "p", "o", "n", "s", "e", ".", "r", "e", "a", "s", "o", "n", "i", "n", "g", "_", "s", "u", "m", "m", "a", "r", "y", "_", "t", "e", "x", "t", ".", "d", "e", "l", "t", "a", "\n", "d", "a", "t", "a", ":", " ", "{", "\"", "d", "e", "l", "t", "a", "\"", ":", "\"", "z", "z", "\"", "}", "\n", "\n">>,
       <<"e", "v", "e", "n", "t", ":", " ", "r", "e", "s", "p", "o", "n", "s", "e", ".", "c", "r", "e", "a", "t", "e", "d", "\n", "\n">>,
       <<"d", "a", "t", "a", ":", " ", "{", "\"", "d", "e", "l", "t", "a", "\"", ":", "\"", "H", "e", "\"", "}", "\n", "\n">> >>

\* lines that are no fields: a comment, a blank line
NoiseLines == << <<":", " ", "p", "i", "n", "g", "\n">>, NL >>

\* text that need not respect line boundaries
JunkTexts == << <<" ">>, <<"d", "a", "t", "a", ":", "\n">> >>

\* a stream cut in the middle of an event
CutText == <<"e", "v", "e", "n", "t", ":", " ", "r", "e", "s", "p", "o", "n", "s", "e", ".", "o", "u", "t", "p", "u", "t", "_", "t", "e", "x", "t", ".", "d", "e", "l", "t", "a", "\n", "d", "a", "t", "a", ":", " ", "{", "\"", "d", "e", "l", "t", "a", "\"", ":", "\"", "H", "e">>

InitSse ==
    /\ respBody = <<>>
    /\ sent = <<>>
    /\ wellFormed = TRUE
    /\ emitted = 0
    /\ ssePc = "stream"
    /\ decoded = [raised |-> FALSE, events |-> <<>>]
    /\ rendered = [kind |-> "none"]

SseParked == InitSse

\* the upstream emits a text-delta event
EmitDelta ==
    /\ UNCHANGED NotSse
    /\ ssePc = "stream" /\ emitted < MaxBlocks
    /\ \E k \in 1..Len(DeltaBlocks) :
         /\ respBody' = respBody \o DeltaBlocks[k].text
         /\ sent' = Append(sent, [delta |-> TRUE, frag |-> DeltaBlocks[k].frag])
    /\ emitted' = emitted + 1
    /\ UNCHANGED <<wellFormed, ssePc, decoded, rendered>>

\* the upstream emits an event of another type
EmitOther ==
    /\ UNCHANGED NotSse
    /\ ssePc = "stream" /\ emitted < MaxBlocks
    /\ \E k \in 1..Len(OtherBlocks) :
         /\ respBody' = respBody \o OtherBlocks[k]
         /\ sent' = Append(sent, [delta |-> FALSE, frag |-> <<>>])
    /\ emitted' = emitted + 1
    /\ UNCHANGED <<wellFormed, ssePc, decoded, rendered>>

\* the upstream emits a comment or a blank line
EmitNoise ==
    /\ UNCHANGED NotSse
    /\ ssePc = "stream" /\ emitted < MaxBlocks
    /\ \E k \in 1..Len(NoiseLines) : respBody' = respBody \o NoiseLines[k]
    /\ emitted' = emitted + 1
    /\ UNCHANGED <<wellFormed, sent, ssePc, decoded, rendered>>

\* arbitrary text gets into the body
EmitJunk ==
    /\ UNCHANGED NotSse
    /\ ssePc = "stream" /\ emitted < MaxBlocks
    /\ \E k \in 1..Len(JunkTexts) : respBody' = respBody \o JunkTexts[k]
    /\ wellFormed' = FALSE
    /\ emitted' = emitted + 1
    /\ UNCHANGED <<sent, ssePc, decoded, rendered>>

\* the stream is cut in the middle of an event: the body is complete
CutStream ==
    /\ UNCHANGED NotSse
    /\ ssePc = "stream"
    /\ respBody' = respBody \o CutText
    /\ ssePc' = "closed"
    /\ UNCHANGED <<wellFormed, sent, emitted, decoded, rendered>>

\* sse.py:17-61  the decoder is applied to the body
Decode ==
    /\ UNCHANGED NotSse
    /\ ssePc \in {"stream", "closed"}
    /\ decoded' = parse_sse_events(respBody)
    /\ ssePc' = "decoded"
    /\ UNCHANGED <<wellFormed, respBody, sent, emitted, rendered>>

\* openai_responses.py:142-287  the renderer is applied to the body
Render ==
    /\ UNCHANGED NotSse
    /\ ssePc = "decoded"
    /\ rendered' = format_response_body(PyStr(respBody))
    /\ ssePc' = "rendered"
    /\ UNCHANGED <<wellFormed, respBody, sent, emitted, decoded>>

(***************************************************************************)
(* The decoder's loop over the blocks of a body (sse.py), one iteration a  *)
(* step                                                                    *)
(***************************************************************************)
\* the lines an upstream may put into a body: an event line, an event line
\* with an empty type, data lines with and without the space, a data line
\* with no text, a comment, a blank line
StreamLines ==
    << <<"e", "v", "e", "n", "t", ":", " ", "f", "o", "o">>,
       <<"e", "v", "e", "n", "t", ":", " ">>,
       <<"d", "a", "t", "a", ":", " ", "{", "\"", "a", "\"", ":", "1", "}">>,
       <<"d", "a", "t", "a", ":", " ", "[">>,
       <<"d", "a", "t", "a", ":", "]">>,
       <<"d", "a", "t", "a", ":">>,
       <<":", " ", "c">>,
       <<>> >>

InitLoop ==
    /\ sseRaw = <<>>
    /\ nLines = 0
    /\ loopPc = "build"
    /\ blockNo = 0
    /\ sseEvents = <<>>
    /\ yielded = <<>>

LoopParked == InitLoop

\* the upstream writes one more line into the body
WriteLine ==
    /\ UNCHANGED NotLoop
    /\ loopPc = "build" /\ nLines < MaxLines
    /\ \E k \in 1..Len(StreamLines) : sseRaw' = sseRaw \o StreamLines[k] \o NL
    /\ nLines' = nLines + 1
    /\ UNCHANGED <<loopPc, blockNo, sseEvents, yielded>>

\* sse.py:38  events = []
EnterLoop ==
    /\ UNCHANGED NotLoop
    /\ loopPc = "build"
    /\ loopPc' = "loop"
    /\ blockNo' = 1
    /\ sseEvents' = <<>>
    /\ UNCHANGED <<sseRaw, nLines, yielded>>

\* sse.py:39  raw.split("\n\n")
RawBlocks == Split(sseRaw, NLNL)

\* an exception leaves the try statement of line 55
Raises(evs) == \E i \in 1..Len(evs) : evs[i].data = JsonError

\* sse.py:40-60  the body of the loop; evs is what the block appends to events
HandleBlock(evs) ==
    IF Raises(evs)
      THEN /\ loopPc' = "raised"
           /\ UNCHANGED <<blockNo, sseEvents, yielded>>
      ELSE /\ sseEvents' = sseEvents \o evs
           /\ yielded' = Append(yielded, evs)
           /\ blockNo' = blockNo + 1
           /\ UNCHANGED loopPc

\* sse.py:39-60  one iteration of the for loop
LoopBlock ==
    /\ UNCHANGED NotLoop
    /\ loopPc = "loop" /\ blockNo <= Len(RawBlocks)
    /\ HandleBlock(BlockEvents(RawBlocks[blockNo]))
    /\ UNCHANGED <<sseRaw, nLines>>

\* sse.py:61  return events
LoopReturn ==
    /\ UNCHANGED NotLoop
    /\ loopPc = "loop" /\ blockNo > Len(RawBlocks)
    /\ loopPc' = "returned"
    /\ UNCHANGED <<sseRaw, nLines, blockNo, sseEvents, yielded>>

(***************************************************************************)
(* Header redaction: redact_headers (analyze.py) under a profile (types.py) *)
(***************************************************************************)
UpperLetters == <<"A", "B", "C", "D", "E", "F", "G", "H", "I", "J", "K", "L", "M", "N", "O", "P", "Q", "R", "S", "T", "U", "V", "W", "X", "Y", "Z">>
LowerLetters == <<"a", "b", "c", "d", "e", "f", "g", "h", "i", "j", "k", "l", "m", "n", "o", "p", "q", "r", "s", "t", "u", "v", "w", "x", "y", "z">>

\* str.lower() on the letters of this model
LowerChar(c) ==
    IF \E i \in 1..Len(UpperLetters) : UpperLetters[i] = c
      THEN LowerLetters[CHOOSE i \in 1..Len(UpperLetters) : UpperLetters[i] = c]
      ELSE c

Lower(s) == [i \in 1..Len(s) |-> LowerChar(s[i])]

\* analyze.py:268  the number of characters kept of a long value, and the markers
KeepChars == 20
LongMarker == <<".", ".", ".", "[", "R", "E", "D", "A", "C", "T", "E", "D", "]">>
Marker == <<"[", "R", "E", "D", "A", "C", "T", "E", "D", "]">>

\* analyze.py:268  v[:20] + "...[REDACTED]" if len(v) > 20 else "[REDACTED]"
RedactedValue(v) ==
    IF Len(v) > KeepChars THEN Prefix(v, KeepChars) \o LongMarker ELSE Marker

\* analyze.py:265-271  the loop over headers.items(), filling result
RECURSIVE RedactItems(_, _, _)
RedactItems(items, redacted, result) ==
    IF items = <<>> THEN result
    ELSE RedactItems(Tail(items), redacted,
            DictSet(result, items[1][1],
                    IF Lower(items[1][1]) \in redacted
                      THEN RedactedValue(items[1][2]) ELSE items[1][2]))

\* analyze.py:247-271  redact_headers(headers, redacted); a dict is its item list
redact_headers(headers, redacted) == RedactItems(headers, redacted, <<>>)

\* types.py:96-98  the redaction set a profile gets by default
DefaultRedacted == {<<"a", "u", "t", "h", "o", "r", "i", "z", "a", "t", "i", "o", "n">>, <<"c", "o", "o", "k", "i", "e">>, <<"s", "e", "t", "-", "c", "o", "o", "k", "i", "e">>}

\* codex/traffic.py:48  the redaction set of the codex profile
CodexRedacted == DefaultRedacted \cup {<<"o", "p", "e", "n", "a", "i", "-", "o", "r", "g", "a", "n", "i", "z", "a", "t", "i", "o", "n">>}

\* a profile whose author wrote the header names as HTTP writes them
CapitalizedRedacted == {<<"A", "u", "t", "h", "o", "r", "i", "z", "a", "t", "i", "o", "n">>, <<"C", "o", "o", "k", "i", "e">>}

Profiles ==
    { [name |-> "default", report_title |-> "Traffic Analysis Report",
       redacted_headers |-> DefaultRedacted],
      [name |-> "codex", report_title |-> "Codex Traffic Analysis Report",
       redacted_headers |-> CodexRedacted],
      [name |-> "capitalized", report_title |-> "Traffic Analysis Report",
       redacted_headers |-> CapitalizedRedacted] }

\* header names and values of the logged exchange
HeaderNames ==
    { <<"A", "u", "t", "h", "o", "r", "i", "z", "a", "t", "i", "o", "n">>,
      <<"a", "u", "t", "h", "o", "r", "i", "z", "a", "t", "i", "o", "n">>,
      <<"A", "U", "T", "H", "O", "R", "I", "Z", "A", "T", "I", "O", "N">>,
      <<"C", "o", "o", "k", "i", "e">>,
      <<"O", "p", "e", "n", "A", "I", "-", "O", "r", "g", "a", "n", "i", "z", "a", "t", "i", "o", "n">>,
      <<"a", "c", "c", "e", "p", "t">> }

Secret == <<"B", "e", "a", "r", "e", "r", " ", "s", "k", "-", "0", "1", "2", "3", "4", "5", "6", "7", "8", "9", "a", "b", "c", "d", "e", "f", "g", "h">>
ValueLens == {0, KeepChars - 1, KeepChars, KeepChars + 1, Len(Secret)}
ValueOfLen(n) == SubSeq(Secret, 1, n)

InitRedact ==
    /\ theProfile \in Profiles
    /\ reqHeaders = <<>>
    /\ redactOut = <<>>
    /\ redPc = "build"

RedactParked ==
    /\ theProfile = [name |-> "default", report_title |-> "Traffic Analysis Report",
                     redacted_headers |-> DefaultRedacted]
    /\ reqHeaders = <<>>
    /\ redactOut = <<>>
    /\ redPc = "build"

\* the logged exchange carries one more header (a dict: one value per name as written)
AddHeader ==
    /\ UNCHANGED NotRedact
    /\ redPc = "build" /\ Len(reqHeaders) < MaxHeaders
    /\ \E k \in HeaderNames, n \in ValueLens :
         reqHeaders' = DictSet(reqHeaders, k, ValueOfLen(n))
    /\ UNCHANGED <<theProfile, redactOut, redPc>>

\* analyze.py:327  redact_headers(headers, profile.redacted_headers)
Redact ==
    /\ UNCHANGED NotRedact
    /\ redPc = "build"
    /\ redactOut' = redact_headers(reqHeaders, theProfile.redacted_headers)
    /\ redPc' = "done"
    /\ UNCHANGED <<theProfile, reqHeaders>>

(***************************************************************************)
(* Statistics: analyze, extract_keys, type_name (analyze.py) and the       *)
(* library calls they make: urlparse, str, sorted, json.dumps              *)
(***************************************************************************)
\* the printable characters but the backquote, in code point order: the order
\* of str comparison
Ascii ==
    <<" ", "!", "\"", "#", "$", "%", "&", "'", "(", ")", "*", "+", ",", "-", ".", "/", "0", "1", "2", "3", "4", "5", "6", "7", "8", "9", ":", ";", "<", "=", ">", "?", "@", "A", "B", "C", "D", "E", "F", "G", "H", "I", "J", "K", "L", "M", "N", "O", "P", "Q", "R", "S", "T", "U", "V", "W", "X", "Y", "Z", "[", "\\", "]", "^", "_", "a", "b", "c", "d", "e", "f", "g", "h", "i", "j", "k", "l", "m", "n", "o", "p", "q", "r", "s", "t", "u", "v", "w", "x", "y", "z", "{", "|", "}", "~">>

CodePoint(c) == CHOOSE i \in 1..Len(Ascii) : Ascii[i] = c

\* a < b on str: at the first index where they differ, or a is a proper prefix
StrLess(a, b) ==
    \E i \in 1..(Len(a) + 1) :
        /\ i <= Len(b)
        /\ \A k \in 1..(i - 1) : a[k] = b[k]
        /\ i <= Len(a) => CodePoint(a[i]) < CodePoint(b[i])

LeastStr(v) == CHOOSE x \in v : \A y \in v \ {x} : StrLess(x, y)

\* sorted(v) for a set of str
RECURSIVE SortedStrs(_)
SortedStrs(v) ==
    IF v = {} THEN <<>> ELSE <<LeastStr(v)>> \o SortedStrs(v \ {LeastStr(v)})

\* str(n) for an int
RECURSIVE IntToText(_)
IntToText(n) ==
    IF n < 0 THEN <<"-">> \o IntToText(0 - n)
    ELSE IF n < 10 THEN <<Digits[n + 1]>>
    ELSE IntToText(n \div 10) \o <<Digits[(n % 10) + 1]>>

\* str(v) for an int or a str
StrOf(v) == IF v.t = "int" THEN IntToText(v.n) ELSE v.s

\* json.dumps(v) with the default separators, for strings that need no escape
RECURSIVE JsonDumps(_)
RECURSIVE DumpItems(_, _)
RECURSIVE DumpElements(_, _)
JsonDumps(v) ==
    CASE v.t = "none" -> <<"n", "u", "l", "l">>
      [] v.t = "bool" -> IF v.b THEN <<"t", "r", "u", "e">> ELSE <<"f", "a", "l", "s", "e">>
      [] v.t = "int" -> IntToText(v.n)
      [] v.t = "str" -> <<"\"">> \o v.s \o <<"\"">>
      [] v.t = "list" -> <<"[">> \o DumpElements(v.items, 1) \o <<"]">>
      [] v.t = "dict" -> <<"{">> \o DumpItems(v.items, 1) \o <<"}">>

DumpItems(items, i) ==
    IF i > Len(items) THEN <<>>
    ELSE <<"\"">> \o items[i][1] \o <<"\"", ":", " ">> \o JsonDumps(items[i][2])
         \o (IF i < Len(items) THEN <<",", " ">> ELSE <<>>)
         \o DumpItems(items, i + 1)

DumpElements(items, i) ==
    IF i > Len(items) THEN <<>>
    ELSE JsonDumps(items[i])
         \o (IF i < Len(items) THEN <<",", " ">> ELSE <<>>)
         \o DumpElements(items, i + 1)

\* urllib.parse.urlsplit: the characters a scheme is made of
SchemeChars ==
    {UpperLetters[i] : i \in 1..Len(UpperLetters)} \cup {LowerLetters[i] : i \in 1..Len(LowerLetters)}
      \cup {Digits[i] : i \in 1..Len(Digits)} \cup {"+", "-", "."}

IsLetter(c) ==
    \E i \in 1..Len(UpperLetters) : UpperLetters[i] = c \/ LowerLetters[i] = c

\* first index from from on where u holds one of chars (Len(u) + 1: none)
FirstOf(u, chars, from) ==
    IF \E j \in from..Len(u) : u[j] \in chars
      THEN CHOOSE j \in from..Len(u) :
             u[j] \in chars /\ \A k \in from..(j - 1) : u[k] \notin chars
      ELSE Len(u) + 1

\* urlsplit: the scheme, ending at the first colon i, is taken off
AfterSchemeAt(url, i) ==
    IF /\ i > 1 /\ i <= Len(url)
       /\ IsLetter(url[1])
       /\ \A k \in 1..(i - 1) : url[k] \in SchemeChars
      THEN From(url, i) ELSE url

AfterScheme(url) == AfterSchemeAt(url, FirstOf(url, {":"}, 1))

\* urlsplit: "//" starts the netloc, which ends before the first of / ? #
AfterNetloc(u) ==
    IF StartsWith(u, <<"/", "/">>) THEN From(u, FirstOf(u, {"/", "?", "#"}, 3) - 1) ELSE u

\* urlsplit: the fragment and the query are cut off
BeforeQuery(u) == Prefix(u, FirstOf(u, {"?", "#"}, 1) - 1)

\* urlparse(url).path, for URLs without ";"
UrlPath(url) == BeforeQuery(AfterNetloc(AfterScheme(url)))

\* analyze.py:99-112  type_name(v)
type_name(v) ==
    CASE v.t = "none" -> "null"
      [] v.t = "bool" -> "bool"
      [] v.t = "int" -> "int"
      [] v.t = "str" -> "string"
      [] v.t = "list" -> "array"
      [] v.t = "dict" -> "object"

\* analyze.py:135  full = f"{prefix}.{k}" if prefix else k
FullKey(prefix, k) == IF prefix # <<>> THEN prefix \o <<".">> \o k ELSE k

\* a walk that visits every element of a list
RECURSIVE extract_keys_EveryElement(_, _)
RECURSIVE ExtractItemsEvery(_, _, _)
RECURSIVE ExtractElementsEvery(_, _, _)
extract_keys_EveryElement(obj, prefix) ==
    IF obj.t = "dict" THEN ExtractItemsEvery(obj.items, prefix, 1)
    ELSE IF obj.t = "list" THEN ExtractElementsEvery(obj.items, prefix \o <<"[", "]">>, 1)
    ELSE <<>>

ExtractItemsEvery(items, prefix, i) ==
    IF i > Len(items) THEN <<>>
    ELSE << <<FullKey(prefix, items[i][1]), type_name(items[i][2])>> >>
         \o extract_keys_EveryElement(items[i][2], FullKey(prefix, items[i][1]))
         \o ExtractItemsEvery(items, prefix, i + 1)

ExtractElementsEvery(items, prefix, i) ==
    IF i > Len(items) THEN <<>>
    ELSE extract_keys_EveryElement(items[i], prefix) \o ExtractElementsEvery(items, prefix, i + 1)

\* analyze.py:116-140  extract_keys(obj, prefix): a list of <<path, type label>>
RECURSIVE extract_keys(_, _)
RECURSIVE ExtractItems(_, _, _)
extract_keys(obj, prefix) ==
    IF obj.t = "dict" THEN ExtractItems(obj.items, prefix, 1)
    ELSE IF obj.t = "list" /\ obj.items # <<>>
      THEN extract_keys(obj.items[1], prefix \o <<"[", "]">>)
    ELSE <<>>

\* analyze.py:134-137  the loop over obj.items()
ExtractItems(items, prefix, i) ==
    IF i > Len(items) THEN <<>>
    ELSE << <<FullKey(prefix, items[i][1]), type_name(items[i][2])>> >>
         \o extract_keys(items[i][2], FullKey(prefix, items[i][1]))
         \o ExtractItems(items, prefix, i + 1)

\* the keys of an exchange and of its parts
KeyRequest == <<"r", "e", "q", "u", "e", "s", "t">>
KeyUrl == <<"u", "r", "l">>
KeyMethod == <<"m", "e", "t", "h", "o", "d">>
KeyStatusCode == <<"s", "t", "a", "t", "u", "s", "_", "c", "o", "d", "e">>
KeyTimestamp == <<"t", "i", "m", "e", "s", "t", "a", "m", "p">>
KeyHeaders == <<"h", "e", "a", "d", "e", "r", "s">>
KeyBody == <<"b", "o", "d", "y">>

\* counter[k] += 1 on a Counter kept as its item list
Incremented(counter, k) == DictSet(counter, k, ItemsGet(counter, k, 0) + 1)

\* analyze.py:199-202, 211-214  the loop over extract_keys(body): the counts
\* the loop taken at once: a key of the Counter gains its occurrences among
\* keys[i..], a new key is appended where it first occurs
Occurrences(keys, i, k) == Cardinality({j \in i..Len(keys) : keys[j][1] = k})

FirstSeen(keys, i, known) ==
    SelectSeq([j \in 1..Len(keys) |-> j],
              LAMBDA j : /\ j >= i
                         /\ \A h \in i..(j - 1) : keys[h][1] # keys[j][1]
                         /\ \A h \in 1..Len(known) : known[h][1] # keys[j][1])

CountKeys(keys, i, counts) ==
    [j \in 1..Len(counts) |-> <<counts[j][1], counts[j][2] + Occurrences(keys, i, counts[j][1])>>]
    \o [n \in 1..Len(FirstSeen(keys, i, counts)) |->
          <<keys[FirstSeen(keys, i, counts)[n]][1],
            Occurrences(keys, i, keys[FirstSeen(keys, i, counts)[n]][1])>>]

\* analyze.py:199-202, 211-214  the loop over extract_keys(body): the type sets
LabelsOf(keys, i, k) == {keys[j][2] : j \in {h \in i..Len(keys) : keys[h][1] = k}}

CollectTypes(keys, i, types) ==
    [j \in 1..Len(types) |-> <<types[j][1], types[j][2] \cup LabelsOf(keys, i, types[j][1])>>]
    \o [n \in 1..Len(FirstSeen(keys, i, types)) |->
          <<keys[FirstSeen(keys, i, types)[n]][1],
            LabelsOf(keys, i, keys[FirstSeen(keys, i, types)[n]][1])>>]

\* analyze.py:203-208, 215-222  what a body adds to the byte total
BodyBytes(body) ==
    IF body.t = "str" THEN Len(body.s)
    ELSE IF body.t # "none" THEN Len(JsonDumps(body))
    ELSE 0

\* analyze.py:168-178  the accumulators before the loop
InitAcc ==
    [ endpoint_counts |-> <<>>, method_counts |-> <<>>, status_counts |-> <<>>,
      request_key_counts |-> <<>>, response_key_counts |-> <<>>,
      request_key_types |-> <<>>, response_key_types |-> <<>>,
      endpoint_methods |-> <<>>, timestamps |-> <<>>,
      total_req_bytes |-> 0, total_resp_bytes |-> 0 ]

\* AddMethod that keeps the last method seen on the endpoint only
AddMethod_Overwrite(methods, endpoint, method) == DictSet(methods, endpoint, {method})

\* analyze.py:192  endpoint_methods[endpoint].add(method)
AddMethod(methods, endpoint, method) ==
    DictSet(methods, endpoint, ItemsGet(methods, endpoint, {}) \cup {method})

\* a status test by truth value, as for the timestamp
StatusPresent_Truthy(status) == status # PyNone /\ status # PyInt(0)

\* analyze.py:193  if status is not None
StatusPresent(status) == status # PyNone

\* analyze.py:189-222  the loop body, the values read from the entry given
Accumulate(acc, endpoint, method, status, ts, req_body, resp_body) ==
    [ endpoint_counts |-> Incremented(acc.endpoint_counts, endpoint),
      method_counts |-> Incremented(acc.method_counts, method),
      endpoint_methods |-> AddMethod(acc.endpoint_methods, endpoint, method),
      status_counts |->
          IF StatusPresent(status) THEN Incremented(acc.status_counts, StrOf(status))
          ELSE acc.status_counts,
      timestamps |->
          IF ts # PyNone /\ ts # PyInt(0) THEN Append(acc.timestamps, ts.n)
          ELSE acc.timestamps,
      request_key_counts |->
          IF req_body.t = "dict"
            THEN CountKeys(extract_keys(req_body, <<>>), 1, acc.request_key_counts)
            ELSE acc.request_key_counts,
      request_key_types |->
          IF req_body.t = "dict"
            THEN CollectTypes(extract_keys(req_body, <<>>), 1, acc.request_key_types)
            ELSE acc.request_key_types,
      response_key_counts |->
          IF resp_body.t = "dict"
            THEN CountKeys(extract_keys(resp_body, <<>>), 1, acc.response_key_counts)
            ELSE acc.response_key_counts,
      response_key_types |->
          IF resp_body.t = "dict"
            THEN CollectTypes(extract_keys(resp_body, <<>>), 1, acc.response_key_types)
            ELSE acc.response_key_types,
      total_req_bytes |-> acc.total_req_bytes + BodyBytes(req_body),
      total_resp_bytes |-> acc.total_resp_bytes + BodyBytes(resp_body) ]

\* analyze.py:188  endpoint = parsed.path or "/"
EndpointOf(path) == IF path = <<>> THEN <<"/">> ELSE path

\* analyze.py:181-187  what the loop body reads from req and resp
AccumulateFrom(acc, entry, req, resp) ==
    Accumulate(acc,
               EndpointOf(UrlPath(DictGet(req, KeyUrl, PyStr(<<>>)).s)),
               DictGet(req, KeyMethod, PyStr(<<"?">>)).s,
               DictGet(resp, KeyStatusCode, PyNone),
               DictGet(entry, KeyTimestamp, PyNone),
               DictGet(req, KeyBody, PyNone),
               DictGet(resp, KeyBody, PyNone))

\* analyze.py:180-222  the loop over entries
RECURSIVE AnalyzeFrom(_, _, _)
AnalyzeFrom(entries, i, acc) ==
    IF i > Len(entries) THEN acc
    ELSE AnalyzeFrom(entries, i + 1,
            AccumulateFrom(acc, entries[i],
                           DictGet(entries[i], KeyRequest, PyDict(<<>>)),
                           DictGet(entries[i], KeyResponse, PyDict(<<>>))))

\* max(timestamps) - min(timestamps)
Span(timestamps) ==
    (CHOOSE x \in Range(timestamps) : \A y \in Range(timestamps) : y <= x)
      - (CHOOSE x \in Range(timestamps) : \A y \in Range(timestamps) : x <= y)

\* a span taken from the first and the last timestamp of the list
Duration_FirstToLast(timestamps) ==
    IF Len(timestamps) >= 2 THEN timestamps[Len(timestamps)] - timestamps[1] ELSE 0

\* analyze.py:224  duration, of whole seconds (round(duration, 1) keeps it)
Duration(timestamps) == IF Len(timestamps) >= 2 THEN Span(timestamps) ELSE 0

\* analyze.py:234-235  most_common(30)
TopKeys == 30
\* a cut that keeps the n entries at the end of the list
Top_Unsorted(items, n) == SubSeq(items, Len(items) - (IF Len(items) < n THEN Len(items) ELSE n) + 1, Len(items))

Top(items, n) == SubSeq(items, 1, IF Len(items) < n THEN Len(items) ELSE n)

\* analyze.py:233  {k: sorted(v) for k, v in endpoint_methods.items()}
SortedMethods(methods) ==
    [i \in 1..Len(methods) |-> <<methods[i][1], SortedStrs(methods[i][2])>>]

\* analyze.py:226-239  the dict returned
AnalysisData(n, acc) ==
    [ total_requests |-> n,
      duration_seconds |-> Duration(acc.timestamps),
      endpoint_counts |-> MostCommon(acc.endpoint_counts),
      method_counts |-> MostCommon(acc.method_counts),
      status_counts |-> MostCommon(acc.status_counts),
      endpoint_methods |-> SortedMethods(acc.endpoint_methods),
      request_key_counts |-> Top(MostCommon(acc.request_key_counts), TopKeys),
      response_key_counts |-> Top(MostCommon(acc.response_key_counts), TopKeys),
      request_key_types |-> acc.request_key_types,
      response_key_types |-> acc.response_key_types,
      total_req_bytes |-> acc.total_req_bytes,
      total_resp_bytes |-> acc.total_resp_bytes ]

\* AnalyzeRaises for an analyze that takes max() and min() of the timestamps
\* of an empty list (ValueError)
AnalyzeRaises_NoGuard(entries) ==
    \/ entries = <<>>
    \/ \E i \in 1..Len(entries) :
        \/ entries[i].t # "dict"
        \/ DictGet(entries[i], KeyRequest, PyDict(<<>>)).t # "dict"
        \/ DictGet(entries[i], KeyResponse, PyDict(<<>>)).t # "dict"

\* analyze.py:181-182  entry.get, req.get, resp.get raise AttributeError on a
\* value that is no dict
AnalyzeRaises(entries) ==
    \E i \in 1..Len(entries) :
        \/ entries[i].t # "dict"
        \/ DictGet(entries[i], KeyRequest, PyDict(<<>>)).t # "dict"
        \/ DictGet(entries[i], KeyResponse, PyDict(<<>>)).t # "dict"

\* analyze.py:148-239  analyze(entries), when it returns
analyze(entries) == AnalysisData(Len(entries), AnalyzeFrom(entries, 1, InitAcc))

(***************************************************************************)
(* Report assembly: format_report and format_conversations (analyze.py).   *)
(* A text is kept as its lines and a line as its fields: Lit for fixed     *)
(* text and for strings of the input, a decoded value for what is          *)
(* formatted into the line.                                                *)
(***************************************************************************)
Lit(x) == [lit |-> x]
Blank == <<>>

\* a field set between backquotes, and the line of three backquotes
Code(x) == [code |-> x]
Fence == <<[fence |-> TRUE]>>

\* Strftime that formats the fraction of the second too
Strftime_Subsecond(t) == [second |-> t \div TicksPerSecond, tick |-> t % TicksPerSecond]

\* analyze.py:391  strftime('%Y-%m-%d %H:%M:%S UTC'): the whole second of the instant t
Strftime(t) == [second |-> t \div TicksPerSecond]

\* analyze.py:305-310  the time of day of an entry's timestamp, "?" when it is absent
DaySeconds == 86400
TimeOfDay(ts) == IF ts # 0 THEN [time |-> ts % DaySeconds] ELSE Lit("?")

(***************************************************************************)
(* Message content: _message_content_preview and _message_content_full of  *)
(* openai_responses.py.  A result is [raised, text].                       *)
(***************************************************************************)
KeyText == <<"t", "e", "x", "t">>
KeyType == <<"t", "y", "p", "e">>
PreviewLen == 80

Returns(text) == [raised |-> FALSE, text |-> text]
RaisesError == [raised |-> TRUE, text |-> <<>>]

\* openai_responses.py:305-308, 322-325  the loop over the items of the list
RECURSIVE PartTexts(_, _, _)
PartTexts(content_items, i, texts) ==
    IF i > Len(content_items) THEN texts
    ELSE IF content_items[i].t = "dict"
      THEN PartTexts(content_items, i + 1,
                     Append(texts, DictGet(content_items[i], KeyText, PyStr(<<>>))))
    ELSE PartTexts(content_items, i + 1, texts)

\* sep.join(texts): TypeError when an item is no str
JoinTexts(texts, sep) ==
    IF AllStr(texts)
      THEN Returns(Join([i \in 1..Len(texts) |-> texts[i].s], sep))
      ELSE RaisesError

\* openai_responses.py:315-327  _message_content_full(content)
message_content_full(content) ==
    IF content.t = "none" THEN Returns(<<>>)
    ELSE IF content.t = "str" THEN Returns(content.s)
    ELSE IF content.t = "list" THEN JoinTexts(PartTexts(content.items, 1, <<>>), NL)
    ELSE Returns(StrOf(content))

\* text.replace("\n", " ")
NewlinesToSpaces(text) == [i \in 1..Len(text) |-> IF text[i] = "\n" THEN " " ELSE text[i]]

\* openai_responses.py:309-312  text is the text with its newlines replaced, stripped
Shortened(text) ==
    IF Len(text) > PreviewLen THEN SubSeq(text, 1, PreviewLen) \o <<".", ".", ".">>
    ELSE IF text # <<>> THEN text
    ELSE <<"*", "(", "e", "m", "p", "t", "y", ")", "*">>

PreviewOf(joined) ==
    IF joined.raised THEN joined ELSE Returns(Shortened(Strip(NewlinesToSpaces(joined.text))))

\* openai_responses.py:295-312  _message_content_preview(content)
message_content_preview(content) ==
    IF content.t = "none" THEN Returns(<<"*", "(", "n", "o", "n", "e", ")", "*">>)
    ELSE IF content.t = "str" THEN PreviewOf(Returns(content.s))
    ELSE IF content.t = "list" THEN PreviewOf(JoinTexts(PartTexts(content.items, 1, <<>>), <<" ">>))
    ELSE PreviewOf(Returns(StrOf(content)))

\* the truth value of a decoded value
Truthy(v) ==
    CASE v.t = "none" -> FALSE
      [] v.t = "bool" -> v.b
      [] v.t = "int" -> v.n # 0
      [] v.t = "str" -> v.s # <<>>
      [] v.t \in {"list", "dict"} -> v.items # <<>>

KeyInstructions == <<"i", "n", "s", "t", "r", "u", "c", "t", "i", "o", "n", "s">>
KeyInput == <<"i", "n", "p", "u", "t">>
KeyTools == <<"t", "o", "o", "l", "s">>
KeyContent == <<"c", "o", "n", "t", "e", "n", "t">>

\* openai_responses.py:78-82  len(instructions) and instructions[:500] of a
\* value that is true: TypeError for a number, for a dict the slice fails
InstructionsRaise(instructions) ==
    Truthy(instructions) /\ instructions.t \notin {"str", "list"}

\* openai_responses.py:98-116  msg.get of an item that is no dict is an
\* AttributeError; the content helpers raise on a text that is no str
MessageRaises(msg) ==
    \/ msg.t # "dict"
    \/ message_content_preview(DictGet(msg, KeyContent, PyNone)).raised
    \/ message_content_full(DictGet(msg, KeyContent, PyNone)).raised

\* openai_responses.py:92-116  input_msgs that is true: len() of a number is a
\* TypeError, the items of a str are characters and those of a dict its keys
InputRaises(input_msgs) ==
    /\ Truthy(input_msgs)
    /\ \/ input_msgs.t # "list"
       \/ \E i \in 1..Len(input_msgs.items) : MessageRaises(input_msgs.items[i])

\* openai_responses.py:119-125  tools that is true: t.get of an item that is
\* no dict, or the iteration of a number
ToolsRaise(tools) ==
    /\ Truthy(tools)
    /\ \/ tools.t # "list"
       \/ \E i \in 1..Len(tools.items) : tools.items[i].t # "dict"

\* openai_responses.py:62-134  the summary of a dict does not come about
SummaryRaises(body) ==
    \/ InstructionsRaise(DictGet(body, KeyInstructions, PyStr(<<>>)))
    \/ InputRaises(DictGet(body, KeyInput, PyList(<<>>)))
    \/ ToolsRaise(DictGet(body, KeyTools, PyList(<<>>)))

\* openai_responses.py:28-134  format_request_body(body): lines 48-60 for a body
\* that is no dict; the summary of a dict (lines 62-134) is kept as the dict it
\* is made from, "raise" when an exception leaves the function
format_request_body(body) ==
    IF body.t = "none" THEN [kind |-> "no body"]
    ELSE IF body.t # "dict" THEN [kind |-> "raw", body |-> body]
    ELSE IF SummaryRaises(body) THEN [kind |-> "raise"]
    ELSE [kind |-> "summary", body |-> body]

\* analyze.py:327-328, 344-345  one line per header of the redacted dict
HeaderLines(hs) ==
    [i \in 1..Len(hs) |-> <<PyStr(hs[i][1]), Lit(": "), PyStr(hs[i][2])>>]

\* analyze.py:302-356  the lines of the i-th entry
EntryLines(i, entry, profile) ==
       << <<Lit("### Request "), PyInt(i), Lit(": "),
            Code(<<entry.request.method, " ", entry.request.url>>),
            Lit(" -> "), entry.response.status_code>>,
          <<Lit("**Time:** "), TimeOfDay(entry.timestamp), Lit(" UTC")>>,
          Blank,
          <<Lit("<details>")>>, <<Lit("<summary><b>Request Headers</b></summary>")>>, Blank,
          Fence >>
    \o HeaderLines(redact_headers(entry.request.headers, profile.redacted_headers))
    \o << Fence, <<Lit("</details>")>>, Blank,
          <<Lit("#### Request Body")>>, Blank,
          <<format_request_body(entry.request.body)>>, Blank,
          <<Lit("<details>")>>, <<Lit("<summary><b>Response Headers</b></summary>")>>, Blank,
          Fence >>
    \o HeaderLines(redact_headers(entry.response.headers, profile.redacted_headers))
    \o << Fence, <<Lit("</details>")>>, Blank,
          <<Lit("#### Response Body")>>, Blank,
          <<format_response_body(entry.response.body)>>, Blank,
          <<Lit("---")>>, Blank >>

RECURSIVE EntriesLines(_, _, _)
EntriesLines(entries, i, profile) ==
    IF i > Len(entries) THEN <<>>
    ELSE EntryLines(i, entries[i], profile) \o EntriesLines(entries, i + 1, profile)

\* analyze.py:279-358  format_conversations(entries, profile)
format_conversations(entries, profile) ==
    << <<Lit("## Full Conversation Log")>>, Blank >> \o EntriesLines(entries, 1, profile)

\* sorted() on the type labels type_name gives (analyze.py:99-112)
TypeOrder == <<"array", "bool", "float", "int", "null", "object", "string">>

RECURSIVE SortedFrom(_, _)
SortedFrom(labels, i) ==
    IF i > Len(TypeOrder) THEN <<>>
    ELSE (IF TypeOrder[i] \in labels THEN <<TypeOrder[i]>> ELSE <<>>)
         \o SortedFrom(labels, i + 1)

\* ", ".join(parts)
CommaJoined(parts) == [joined |-> parts]

\* analyze.py:406-410  the rows of the endpoint table
EndpointRows(counts, methods) ==
    [i \in 1..Len(counts) |->
        <<Lit("| "), Code(counts[i][1]), Lit(" | "),
          CommaJoined(ItemsGet(methods, counts[i][1], <<>>)),
          Lit(" | "), PyInt(counts[i][2]), Lit(" |")>>]

\* analyze.py:418-419, 427-428  the rows of the method and of the status table
CountRows(counts) ==
    [i \in 1..Len(counts) |->
        <<Lit("| "), Lit(counts[i][1]), Lit(" | "), PyInt(counts[i][2]), Lit(" |")>>]

\* analyze.py:432-455  a payload structure section, absent when there are no keys
KeySection(title, counts, types) ==
    IF counts = <<>> THEN <<>>
    ELSE << <<Lit(title)>>, Blank,
            <<Lit("| Key Path | Type | Occurrences |")>>,
            <<Lit("|----------|------|-------------|")>> >>
         \o [i \in 1..Len(counts) |->
               <<Lit("| "), Code(counts[i][1]), Lit(" | "),
                 CommaJoined(SortedFrom(ItemsGet(types, counts[i][1], {}), 1)),
                 Lit(" | "), PyInt(counts[i][2]), Lit(" |")>>]
         \o <<Blank>>

\* analyze.py:390-392  the line that carries the time of the run: datetime.now()
\* reads the clock
GeneratedLineNo == 4
GeneratedLine == <<Lit("**Generated:** "), Strftime(clock)>>

\* analyze.py:361-460  format_report(analysis_data, entries, input_path, profile)
format_report(analysis_data, entries, input_path, profile) ==
       << <<Lit("# "), Lit(profile.report_title)>>, Blank,
          <<Lit("**Source:** "), Code(input_path)>>,
          GeneratedLine,
          <<Lit("**Total requests:** "), PyInt(analysis_data.total_requests)>>,
          <<Lit("**Capture duration:** "), PyInt(analysis_data.duration_seconds), Lit("s")>>,
          <<Lit("**Total request payload:** "), PyInt(analysis_data.total_req_bytes), Lit(" bytes")>>,
          <<Lit("**Total response payload:** "), PyInt(analysis_data.total_resp_bytes), Lit(" bytes")>>,
          Blank,
          <<Lit("## Endpoints")>>, Blank,
          <<Lit("| Endpoint | Methods | Count |")>>, <<Lit("|----------|---------|-------|")>> >>
    \o EndpointRows(analysis_data.endpoint_counts, analysis_data.endpoint_methods)
    \o << Blank, <<Lit("## HTTP Methods")>>, Blank,
          <<Lit("| Method | Count |")>>, <<Lit("|--------|-------|")>> >>
    \o CountRows(analysis_data.method_counts)
    \o << Blank, <<Lit("## Response Status Codes")>>, Blank,
          <<Lit("| Status | Count |")>>, <<Lit("|--------|-------|")>> >>
    \o CountRows(analysis_data.status_counts)
    \o <<Blank>>
    \o KeySection("## Request Payload Structure (Top Keys)",
                  analysis_data.request_key_counts, analysis_data.request_key_types)
    \o KeySection("## Response Payload Structure (Top Keys)",
                  analysis_data.response_key_counts, analysis_data.response_key_types)
    \o format_conversations(entries, profile)

\* two logged exchanges: a model listing answered with a JSON object, logged
\* without a timestamp, and a request answered with an event stream
Entry1 ==
    [ timestamp |-> 0,
      request |-> [ method |-> "GET", url |-> "http://127.0.0.1:8080/v1/models",
                    headers |-> << <<<<"A", "u", "t", "h", "o", "r", "i", "z", "a", "t", "i", "o", "n">>, Secret>> >>,
                    body |-> PyNone ],
      response |-> [ status_code |-> PyInt(200),
                     headers |-> << <<<<"s", "e", "t", "-", "c", "o", "o", "k", "i", "e">>, ValueOfLen(KeepChars)>> >>,
                     body |-> PyDict(<< <<<<"o", "b", "j", "e", "c", "t">>, PyStr(<<"l", "i", "s", "t">>)>> >>) ] ]

Entry2 ==
    [ timestamp |-> DaySeconds + 5,
      request |-> [ method |-> "POST", url |-> "http://127.0.0.1:8080/v1/responses",
                    headers |-> << <<<<"a", "c", "c", "e", "p", "t">>, <<"*", "/", "*">>>> >>,
                    body |-> PyStr(<<"h", "i">>) ],
      response |-> [ status_code |-> PyInt(200),
                     headers |-> <<>>,
                     body |-> PyStr(DeltaBlocks[1].text \o DeltaBlocks[2].text) ] ]

\* analyze.py:226-239  what analyze() returns for no entry, for the first entry,
\* for both
NoStats ==
    [ total_requests |-> 0, duration_seconds |-> 0,
      total_req_bytes |-> 0, total_resp_bytes |-> 0,
      endpoint_counts |-> <<>>, endpoint_methods |-> <<>>,
      method_counts |-> <<>>, status_counts |-> <<>>,
      request_key_counts |-> <<>>, request_key_types |-> <<>>,
      response_key_counts |-> <<>>, response_key_types |-> <<>> ]

Stats1 ==
    [ NoStats EXCEPT
        !.total_requests = 1,
        !.total_resp_bytes = Len(<<"{", "\"", "o", "b", "j", "e", "c", "t", "\"", ":", " ", "\"", "l", "i", "s", "t", "\"", "}">>),
        !.endpoint_counts = << <<"/v1/models", 1>> >>,
        !.endpoint_methods = << <<"/v1/models", <<"GET">> >> >>,
        !.method_counts = << <<"GET", 1>> >>,
        !.status_counts = << <<"200", 1>> >>,
        !.response_key_counts = << <<"object", 1>> >>,
        !.response_key_types = << <<"object", {"string"}>> >> ]

Stats2 ==
    [ Stats1 EXCEPT
        !.total_requests = 2,
        !.total_req_bytes = Len(Entry2.request.body.s),
        !.total_resp_bytes = @ + Len(Entry2.response.body.s),
        !.endpoint_counts = << <<"/v1/models", 1>>, <<"/v1/responses", 1>> >>,
        !.endpoint_methods = << <<"/v1/models", <<"GET">> >>, <<"/v1/responses", <<"POST">> >> >>,
        !.method_counts = << <<"GET", 1>>, <<"POST", 1>> >>,
        !.status_counts = << <<"200", 2>> >> ]

Logs ==
    << [entries |-> <<>>, analysis_data |-> NoStats],
       [entries |-> <<Entry1>>, analysis_data |-> Stats1],
       [entries |-> <<Entry1, Entry2>>, analysis_data |-> Stats2] >>

InputPaths == {"traffic.jsonl", "tmp/codex-traffic/traffic.jsonl"}

ReportInputs ==
    { [ analysis_data |-> Logs[l].analysis_data, entries |-> Logs[l].entries,
        input_path |-> p, profile |-> pr ] :
      l \in 1..Len(Logs), p \in InputPaths, pr \in Profiles }

InitReport ==
    /\ clock = 0
    /\ reportIn \in ReportInputs
    /\ reports = <<>>

ReportParked ==
    /\ clock = 0
    /\ reportIn = [ analysis_data |-> NoStats, entries |-> <<>>,
                    input_path |-> "traffic.jsonl",
                    profile |-> [name |-> "default",
                                 report_title |-> "Traffic Analysis Report",
                                 redacted_headers |-> DefaultRedacted] ]
    /\ reports = <<>>

\* time passes
Tick ==
    /\ UNCHANGED NotReport
    /\ clock < MaxClock
    /\ clock' = clock + 1
    /\ UNCHANGED <<reportIn, reports>>

\* analyze.py:531  the analysis is run: format_report on the same arguments
FormatReport ==
    /\ UNCHANGED NotReport
    /\ Len(reports) < MaxRuns
    /\ reports' = Append(reports,
          [ at |-> clock,
            text |-> format_report(reportIn.analysis_data, reportIn.entries,
                                   reportIn.input_path, reportIn.profile) ])
    /\ UNCHANGED <<clock, reportIn>>

(***************************************************************************)
(* The analyzer run on a sequence of exchanges: analyze, then format_report *)
(* (which calls format_conversations, which calls redact_headers)          *)
(***************************************************************************)
\* logged exchanges (the fifth with the timestamp 0, the sixth with a request
\* body of 35 key paths and the status 0): the decoded value, the line of the log that holds it
\* (capture_addon.py:85 json.dumps), its endpoint and its method
Exchanges ==
 << [ value |->
        PyDict(<<<<<<"t", "i", "m", "e", "s", "t", "a", "m", "p">>, PyInt(5)>>, <<<<"r", "e", "q", "u", "e", "s", "t">>, PyDict(<<<<<<"m", "e", "t", "h", "o", "d">>, PyStr(<<"P", "O", "S", "T">>)>>, <<<<"u", "r", "l">>, PyStr(<<"h", "t", "t", "p", ":", "/", "/", "h", "/", "v", "1", "/", "r", "e", "s", "p", "o", "n", "s", "e", "s">>)>>, <<<<"h", "e", "a", "d", "e", "r", "s">>, PyDict(<<<<<<"A", "u", "t", "h", "o", "r", "i", "z", "a", "t", "i", "o", "n">>, PyStr(<<"B", "e", "a", "r", "e", "r", " ", "s", "k", "-", "0", "1", "2", "3", "4", "5", "6", "7", "8", "9", "a", "b", "c", "d", "e", "f", "g", "h">>)>>>>)>>, <<<<"b", "o", "d", "y">>, PyDict(<<<<<<"m", "o", "d", "e", "l">>, PyStr(<<"m">>)>>, <<<<"i", "n", "p", "u", "t">>, PyList(<<PyDict(<<<<<<"r", "o", "l", "e">>, PyStr(<<"u", "s", "e", "r">>)>>>>)>>)>>>>)>>>>)>>, <<<<"r", "e", "s", "p", "o", "n", "s", "e">>, PyDict(<<<<<<"s", "t", "a", "t", "u", "s", "_", "c", "o", "d", "e">>, PyInt(200)>>, <<<<"h", "e", "a", "d", "e", "r", "s">>, PyDict(<<>>)>>, <<<<"b", "o", "d", "y">>, PyStr(<<"o", "k">>)>>>>)>>>>),
      line |->
        <<"{", "\"", "t", "i", "m", "e", "s", "t", "a", "m", "p", "\"", ":", " ", "5", ",", " ", "\"", "r", "e", "q", "u", "e", "s", "t", "\"", ":", " ", "{", "\"", "m", "e", "t", "h", "o", "d", "\"", ":", " ", "\"", "P", "O", "S", "T", "\"", ",", " ", "\"", "u", "r", "l", "\"", ":", " ", "\"", "h", "t", "t", "p", ":", "/", "/", "h", "/", "v", "1", "/", "r", "e", "s", "p", "o", "n", "s", "e", "s", "\"", ",", " ", "\"", "h", "e", "a", "d", "e", "r", "s", "\"", ":", " ", "{", "\"", "A", "u", "t", "h", "o", "r", "i", "z", "a", "t", "i", "o", "n", "\"", ":", " ", "\"", "B", "e", "a", "r", "e", "r", " ", "s", "k", "-", "0", "1", "2", "3", "4", "5", "6", "7", "8", "9", "a", "b", "c", "d", "e", "f", "g", "h", "\"", "}", ",", " ", "\"", "b", "o", "d", "y", "\"", ":", " ", "{", "\"", "m", "o", "d", "e", "l", "\"", ":", " ", "\"", "m", "\"", ",", " ", "\"", "i", "n", "p", "u", "t", "\"", ":", " ", "[", "{", "\"", "r", "o", "l", "e", "\"", ":", " ", "\"", "u", "s", "e", "r", "\"", "}", "]", "}", "}", ",", " ", "\"", "r", "e", "s", "p", "o", "n", "s", "e", "\"", ":", " ", "{", "\"", "s", "t", "a", "t", "u", "s", "_", "c", "o", "d", "e", "\"", ":", " ", "2", "0", "0", ",", " ", "\"", "h", "e", "a", "d", "e", "r", "s", "\"", ":", " ", "{", "}", ",", " ", "\"", "b", "o", "d", "y", "\"", ":", " ", "\"", "o", "k", "\"", "}", "}">>,
      endpoint |-> <<"/", "v", "1", "/", "r", "e", "s", "p", "o", "n", "s", "e", "s">>, method |-> <<"P", "O", "S", "T">> ],
    [ value |->
        PyDict(<<<<<<"t", "i", "m", "e", "s", "t", "a", "m", "p">>, PyInt(9)>>, <<<<"r", "e", "q", "u", "e", "s", "t">>, PyDict(<<<<<<"m", "e", "t", "h", "o", "d">>, PyStr(<<"G", "E", "T">>)>>, <<<<"u", "r", "l">>, PyStr(<<"h", "t", "t", "p", ":", "/", "/", "h", "/", "v", "1", "/", "r", "e", "s", "p", "o", "n", "s", "e", "s", "?", "x", "=", "1">>)>>, <<<<"h", "e", "a", "d", "e", "r", "s">>, PyDict(<<<<<<"C", "o", "o", "k", "i", "e">>, PyStr(<<"c">>)>>>>)>>, <<<<"b", "o", "d", "y">>, PyNone>>>>)>>, <<<<"r", "e", "s", "p", "o", "n", "s", "e">>, PyDict(<<<<<<"s", "t", "a", "t", "u", "s", "_", "c", "o", "d", "e">>, PyInt(404)>>, <<<<"h", "e", "a", "d", "e", "r", "s">>, PyDict(<<<<<<"s", "e", "t", "-", "c", "o", "o", "k", "i", "e">>, PyStr(<<"d">>)>>>>)>>, <<<<"b", "o", "d", "y">>, PyDict(<<<<<<"e", "r", "r", "o", "r">>, PyNone>>>>)>>>>)>>>>),
      line |->
        <<"{", "\"", "t", "i", "m", "e", "s", "t", "a", "m", "p", "\"", ":", " ", "9", ",", " ", "\"", "r", "e", "q", "u", "e", "s", "t", "\"", ":", " ", "{", "\"", "m", "e", "t", "h", "o", "d", "\"", ":", " ", "\"", "G", "E", "T", "\"", ",", " ", "\"", "u", "r", "l", "\"", ":", " ", "\"", "h", "t", "t", "p", ":", "/", "/", "h", "/", "v", "1", "/", "r", "e", "s", "p", "o", "n", "s", "e", "s", "?", "x", "=", "1", "\"", ",", " ", "\"", "h", "e", "a", "d", "e", "r", "s", "\"", ":", " ", "{", "\"", "C", "o", "o", "k", "i", "e", "\"", ":", " ", "\"", "c", "\"", "}", ",", " ", "\"", "b", "o", "d", "y", "\"", ":", " ", "n", "u", "l", "l", "}", ",", " ", "\"", "r", "e", "s", "p", "o", "n", "s", "e", "\"", ":", " ", "{", "\"", "s", "t", "a", "t", "u", "s", "_", "c", "o", "d", "e", "\"", ":", " ", "4", "0", "4", ",", " ", "\"", "h", "e", "a", "d", "e", "r", "s", "\"", ":", " ", "{", "\"", "s", "e", "t", "-", "c", "o", "o", "k", "i", "e", "\"", ":", " ", "\"", "d", "\"", "}", ",", " ", "\"", "b", "o", "d", "y", "\"", ":", " ", "{", "\"", "e", "r", "r", "o", "r", "\"", ":", " ", "n", "u", "l", "l", "}", "}", "}">>,
      endpoint |-> <<"/", "v", "1", "/", "r", "e", "s", "p", "o", "n", "s", "e", "s">>, method |-> <<"G", "E", "T">> ],
    [ value |->
        PyDict(<<<<<<"r", "e", "q", "u", "e", "s", "t">>, PyDict(<<<<<<"m", "e", "t", "h", "o", "d">>, PyStr(<<"G", "E", "T">>)>>, <<<<"u", "r", "l">>, PyStr(<<"h", "t", "t", "p", ":", "/", "/", "h">>)>>, <<<<"h", "e", "a", "d", "e", "r", "s">>, PyDict(<<>>)>>>>)>>, <<<<"r", "e", "s", "p", "o", "n", "s", "e">>, PyDict(<<<<<<"h", "e", "a", "d", "e", "r", "s">>, PyDict(<<>>)>>, <<<<"b", "o", "d", "y">>, PyList(<<>>)>>>>)>>>>),
      line |->
        <<"{", "\"", "r", "e", "q", "u", "e", "s", "t", "\"", ":", " ", "{", "\"", "m", "e", "t", "h", "o", "d", "\"", ":", " ", "\"", "G", "E", "T", "\"", ",", " ", "\"", "u", "r", "l", "\"", ":", " ", "\"", "h", "t", "t", "p", ":", "/", "/", "h", "\"", ",", " ", "\"", "h", "e", "a", "d", "e", "r", "s", "\"", ":", " ", "{", "}", "}", ",", " ", "\"", "r", "e", "s", "p", "o", "n", "s", "e", "\"", ":", " ", "{", "\"", "h", "e", "a", "d", "e", "r", "s", "\"", ":", " ", "{", "}", ",", " ", "\"", "b", "o", "d", "y", "\"", ":", " ", "[", "]", "}", "}">>,
      endpoint |-> <<"/">>, method |-> <<"G", "E", "T">> ],
    [ value |->
        PyDict(<<<<<<"t", "i", "m", "e", "s", "t", "a", "m", "p">>, PyInt(7)>>, <<<<"r", "e", "q", "u", "e", "s", "t">>, PyDict(<<<<<<"m", "e", "t", "h", "o", "d">>, PyStr(<<"P", "O", "S", "T">>)>>, <<<<"u", "r", "l">>, PyStr(<<"/", "v", "1", "/", "m", "o", "d", "e", "l", "s", "#", "t", "o", "p">>)>>, <<<<"h", "e", "a", "d", "e", "r", "s">>, PyDict(<<>>)>>, <<<<"b", "o", "d", "y">>, PyStr(<<"h", "i">>)>>>>)>>, <<<<"r", "e", "s", "p", "o", "n", "s", "e">>, PyDict(<<<<<<"s", "t", "a", "t", "u", "s", "_", "c", "o", "d", "e">>, PyInt(200)>>, <<<<"h", "e", "a", "d", "e", "r", "s">>, PyDict(<<>>)>>, <<<<"b", "o", "d", "y">>, PyDict(<<<<<<"d", "a", "t", "a">>, PyList(<<PyInt(1), PyInt(2)>>)>>>>)>>>>)>>>>),
      line |->
        <<"{", "\"", "t", "i", "m", "e", "s", "t", "a", "m", "p", "\"", ":", " ", "7", ",", " ", "\"", "r", "e", "q", "u", "e", "s", "t", "\"", ":", " ", "{", "\"", "m", "e", "t", "h", "o", "d", "\"", ":", " ", "\"", "P", "O", "S", "T", "\"", ",", " ", "\"", "u", "r", "l", "\"", ":", " ", "\"", "/", "v", "1", "/", "m", "o", "d", "e", "l", "s", "#", "t", "o", "p", "\"", ",", " ", "\"", "h", "e", "a", "d", "e", "r", "s", "\"", ":", " ", "{", "}", ",", " ", "\"", "b", "o", "d", "y", "\"", ":", " ", "\"", "h", "i", "\"", "}", ",", " ", "\"", "r", "e", "s", "p", "o", "n", "s", "e", "\"", ":", " ", "{", "\"", "s", "t", "a", "t", "u", "s", "_", "c", "o", "d", "e", "\"", ":", " ", "2", "0", "0", ",", " ", "\"", "h", "e", "a", "d", "e", "r", "s", "\"", ":", " ", "{", "}", ",", " ", "\"", "b", "o", "d", "y", "\"", ":", " ", "{", "\"", "d", "a", "t", "a", "\"", ":", " ", "[", "1", ",", " ", "2", "]", "}", "}", "}">>,
      endpoint |-> <<"/", "v", "1", "/", "m", "o", "d", "e", "l", "s">>, method |-> <<"P", "O", "S", "T">> ],
    [ value |->
        PyDict(<<<<<<"t", "i", "m", "e", "s", "t", "a", "m", "p">>, PyInt(0)>>, <<<<"r", "e", "q", "u", "e", "s", "t">>, PyDict(<<<<<<"m", "e", "t", "h", "o", "d">>, PyStr(<<"G", "E", "T">>)>>, <<<<"u", "r", "l">>, PyStr(<<"h", "t", "t", "p", ":", "/", "/", "h", "/", "v", "1", "/", "m", "o", "d", "e", "l", "s">>)>>, <<<<"h", "e", "a", "d", "e", "r", "s">>, PyDict(<<>>)>>, <<<<"b", "o", "d", "y">>, PyDict(<<<<<<"g", "5">>, PyDict(<<<<<<"f">>, PyInt(2)>>>>)>>, <<<<"i", "t", "e", "m", "s">>, PyList(<<PyDict(<<<<<<"x">>, PyInt(1)>>>>), PyDict(<<<<<<"y">>, PyInt(2)>>>>)>>)>>, <<<<"e", "m", "p", "t", "y">>, PyList(<<>>)>>, <<<<"m", "e", "t", "a">>, PyDict(<<<<<<"p", "a", "g", "e">>, PyDict(<<<<<<"n">>, PyInt(1)>>>>)>>>>)>>>>)>>>>)>>, <<<<"r", "e", "s", "p", "o", "n", "s", "e">>, PyDict(<<<<<<"s", "t", "a", "t", "u", "s", "_", "c", "o", "d", "e">>, PyInt(200)>>, <<<<"h", "e", "a", "d", "e", "r", "s">>, PyDict(<<>>)>>, <<<<"b", "o", "d", "y">>, PyNone>>>>)>>>>),
      line |->
        <<"{", "\"", "t", "i", "m", "e", "s", "t", "a", "m", "p", "\"", ":", " ", "0", ",", " ", "\"", "r", "e", "q", "u", "e", "s", "t", "\"", ":", " ", "{", "\"", "m", "e", "t", "h", "o", "d", "\"", ":", " ", "\"", "G", "E", "T", "\"", ",", " ", "\"", "u", "r", "l", "\"", ":", " ", "\"", "h", "t", "t", "p", ":", "/", "/", "h", "/", "v", "1", "/", "m", "o", "d", "e", "l", "s", "\"", ",", " ", "\"", "h", "e", "a", "d", "e", "r", "s", "\"", ":", " ", "{", "}", ",", " ", "\"", "b", "o", "d", "y", "\"", ":", " ", "{", "\"", "g", "5", "\"", ":", " ", "{", "\"", "f", "\"", ":", " ", "2", "}", ",", " ", "\"", "i", "t", "e", "m", "s", "\"", ":", " ", "[", "{", "\"", "x", "\"", ":", " ", "1", "}", ",", " ", "{", "\"", "y", "\"", ":", " ", "2", "}", "]", ",", " ", "\"", "e", "m", "p", "t", "y", "\"", ":", " ", "[", "]", ",", " ", "\"", "m", "e", "t", "a", "\"", ":", " ", "{", "\"", "p", "a", "g", "e", "\"", ":", " ", "{", "\"", "n", "\"", ":", " ", "1", "}", "}", "}", "}", ",", " ", "\"", "r", "e", "s", "p", "o", "n", "s", "e", "\"", ":", " ", "{", "\"", "s", "t", "a", "t", "u", "s", "_", "c", "o", "d", "e", "\"", ":", " ", "2", "0", "0", ",", " ", "\"", "h", "e", "a", "d", "e", "r", "s", "\"", ":", " ", "{", "}", ",", " ", "\"", "b", "o", "d", "y", "\"", ":", " ", "n", "u", "l", "l", "}", "}">>,
      endpoint |-> <<"/", "v", "1", "/", "m", "o", "d", "e", "l", "s">>, method |-> <<"G", "E", "T">> ],
    [ value |->
        PyDict(<<<<<<"t", "i", "m", "e", "s", "t", "a", "m", "p">>, PyInt(3)>>, <<<<"r", "e", "q", "u", "e", "s", "t">>, PyDict(<<<<<<"m", "e", "t", "h", "o", "d">>, PyStr(<<"P", "O", "S", "T">>)>>, <<<<"u", "r", "l">>, PyStr(<<"h", "t", "t", "p", ":", "/", "/", "h", "/", "v", "1", "/", "m", "a", "n", "y">>)>>, <<<<"h", "e", "a", "d", "e", "r", "s">>, PyDict(<<>>)>>, <<<<"b", "o", "d", "y">>, PyDict(<<<<<<"g", "1">>, PyDict(<<<<<<"a">>, PyInt(1)>>, <<<<"b">>, PyInt(2)>>, <<<<"c">>, PyInt(3)>>, <<<<"d">>, PyInt(4)>>, <<<<"e">>, PyInt(5)>>, <<<<"f">>, PyInt(6)>>>>)>>, <<<<"g", "2">>, PyDict(<<<<<<"a">>, PyInt(1)>>, <<<<"b">>, PyInt(2)>>, <<<<"c">>, PyInt(3)>>, <<<<"d">>, PyInt(4)>>, <<<<"e">>, PyInt(5)>>, <<<<"f">>, PyInt(6)>>>>)>>, <<<<"g", "3">>, PyDict(<<<<<<"a">>, PyInt(1)>>, <<<<"b">>, PyInt(2)>>, <<<<"c">>, PyInt(3)>>, <<<<"d">>, PyInt(4)>>, <<<<"e">>, PyInt(5)>>, <<<<"f">>, PyInt(6)>>>>)>>, <<<<"g", "4">>, PyDict(<<<<<<"a">>, PyInt(1)>>, <<<<"b">>, PyInt(2)>>, <<<<"c">>, PyInt(3)>>, <<<<"d">>, PyInt(4)>>, <<<<"e">>, PyInt(5)>>, <<<<"f">>, PyInt(6)>>>>)>>, <<<<"g", "5">>, PyDict(<<<<<<"a">>, PyInt(1)>>, <<<<"b">>, PyInt(2)>>, <<<<"c">>, PyInt(3)>>, <<<<"d">>, PyInt(4)>>, <<<<"e">>, PyInt(5)>>, <<<<"f">>, PyInt(6)>>>>)>>>>)>>>>)>>, <<<<"r", "e", "s", "p", "o", "n", "s", "e">>, PyDict(<<<<<<"s", "t", "a", "t", "u", "s", "_", "c", "o", "d", "e">>, PyInt(0)>>, <<<<"h", "e", "a", "d", "e", "r", "s">>, PyDict(<<>>)>>, <<<<"b", "o", "d", "y">>, PyDict(<<<<<<"g", "1">>, PyStr(<<"s">>)>>>>)>>>>)>>>>),
      line |->
        <<"{", "\"", "t", "i", "m", "e", "s", "t", "a", "m", "p", "\"", ":", " ", "3", ",", " ", "\"", "r", "e", "q", "u", "e", "s", "t", "\"", ":", " ", "{", "\"", "m", "e", "t", "h", "o", "d", "\"", ":", " ", "\"", "P", "O", "S", "T", "\"", ",", " ", "\"", "u", "r", "l", "\"", ":", " ", "\"", "h", "t", "t", "p", ":", "/", "/", "h", "/", "v", "1", "/", "m", "a", "n", "y", "\"", ",", " ", "\"", "h", "e", "a", "d", "e", "r", "s", "\"", ":", " ", "{", "}", ",", " ", "\"", "b", "o", "d", "y", "\"", ":", " ", "{", "\"", "g", "1", "\"", ":", " ", "{", "\"", "a", "\"", ":", " ", "1", ",", " ", "\"", "b", "\"", ":", " ", "2", ",", " ", "\"", "c", "\"", ":", " ", "3", ",", " ", "\"", "d", "\"", ":", " ", "4", ",", " ", "\"", "e", "\"", ":", " ", "5", ",", " ", "\"", "f", "\"", ":", " ", "6", "}", ",", " ", "\"", "g", "2", "\"", ":", " ", "{", "\"", "a", "\"", ":", " ", "1", ",", " ", "\"", "b", "\"", ":", " ", "2", ",", " ", "\"", "c", "\"", ":", " ", "3", ",", " ", "\"", "d", "\"", ":", " ", "4", ",", " ", "\"", "e", "\"", ":", " ", "5", ",", " ", "\"", "f", "\"", ":", " ", "6", "}", ",", " ", "\"", "g", "3", "\"", ":", " ", "{", "\"", "a", "\"", ":", " ", "1", ",", " ", "\"", "b", "\"", ":", " ", "2", ",", " ", "\"", "c", "\"", ":", " ", "3", ",", " ", "\"", "d", "\"", ":", " ", "4", ",", " ", "\"", "e", "\"", ":", " ", "5", ",", " ", "\"", "f", "\"", ":", " ", "6", "}", ",", " ", "\"", "g", "4", "\"", ":", " ", "{", "\"", "a", "\"", ":", " ", "1", ",", " ", "\"", "b", "\"", ":", " ", "2", ",", " ", "\"", "c", "\"", ":", " ", "3", ",", " ", "\"", "d", "\"", ":", " ", "4", ",", " ", "\"", "e", "\"", ":", " ", "5", ",", " ", "\"", "f", "\"", ":", " ", "6", "}", ",", " ", "\"", "g", "5", "\"", ":", " ", "{", "\"", "a", "\"", ":", " ", "1", ",", " ", "\"", "b", "\"", ":", " ", "2", ",", " ", "\"", "c", "\"", ":", " ", "3", ",", " ", "\"", "d", "\"", ":", " ", "4", ",", " ", "\"", "e", "\"", ":", " ", "5", ",", " ", "\"", "f", "\"", ":", " ", "6", "}", "}", "}", ",", " ", "\"", "r", "e", "s", "p", "o", "n", "s", "e", "\"", ":", " ", "{", "\"", "s", "t", "a", "t", "u", "s", "_", "c", "o", "d", "e", "\"", ":", " ", "0", ",", " ", "\"", "h", "e", "a", "d", "e", "r", "s", "\"", ":", " ", "{", "}", ",", " ", "\"", "b", "o", "d", "y", "\"", ":", " ", "{", "\"", "g", "1", "\"", ":", " ", "\"", "s", "\"", "}", "}", "}">>,
      endpoint |-> <<"/", "v", "1", "/", "m", "a", "n", "y">>, method |-> <<"P", "O", "S", "T">> ] >>

\* the headers dict as the item list redact_headers is given
HeaderItems(h) == [i \in 1..Len(h.items) |-> <<h.items[i][1], h.items[i][2].s>>]

\* analyze.py:303-312, 334, 351  what format_conversations reads from an entry
ExchangeRecord(entry, req, resp) ==
    [ timestamp |-> IF DictGet(entry, KeyTimestamp, PyInt(0)).t = "int"
                      THEN DictGet(entry, KeyTimestamp, PyInt(0)).n ELSE 0,
      request |-> [ method |-> DictGet(req, KeyMethod, PyStr(<<"?">>)).s,
                    url |-> DictGet(req, KeyUrl, PyStr(<<"?">>)).s,
                    headers |-> HeaderItems(DictGet(req, KeyHeaders, PyDict(<<>>))),
                    body |-> DictGet(req, KeyBody, PyNone) ],
      response |-> [ status_code |-> DictGet(resp, KeyStatusCode, PyStr(<<"?">>)),
                     headers |-> HeaderItems(DictGet(resp, KeyHeaders, PyDict(<<>>))),
                     body |-> DictGet(resp, KeyBody, PyNone) ] ]

\* analyze.py:303-304  req = entry.get("request", {}); resp = entry.get("response", {})
ExchangeRecords(entries) ==
    [i \in 1..Len(entries) |->
        ExchangeRecord(entries[i],
                       DictGet(entries[i], KeyRequest, PyDict(<<>>)),
                       DictGet(entries[i], KeyResponse, PyDict(<<>>)))]

\* redact_headers that writes the redacted values into the dict it is given
HeadersAfterRedact_InPlace(headers, redacted) ==
    PyDict([i \in 1..Len(headers.items) |->
              <<headers.items[i][1],
                PyStr(redact_headers(HeaderItems(headers), redacted)[i][2])>>])

\* analyze.py:265-271  the dict headers after redact_headers(headers, redacted)
\* has run: result is a new dict, headers is only read
HeadersAfterRedact(headers, redacted) == headers

\* the dict d with d[k] = v where d has the key k: an object reached through
\* d.get(k, {}) is part of d only then
Replaced(d, k, v) ==
    IF \E i \in 1..Len(d.items) : d.items[i][1] = k
      THEN PyDict(DictSet(d.items, k, v)) ELSE d

\* analyze.py:311-345  req (or resp) after format_conversations has handled it
PartAfterFormat(part, redacted) ==
    Replaced(part, KeyHeaders,
             HeadersAfterRedact(DictGet(part, KeyHeaders, PyDict(<<>>)), redacted))

\* analyze.py:302-356  an entry after format_conversations has handled it
EntryAfterFormat(entry, redacted) ==
    Replaced(
        Replaced(entry, KeyRequest,
                 PartAfterFormat(DictGet(entry, KeyRequest, PyDict(<<>>)), redacted)),
        KeyResponse,
        PartAfterFormat(DictGet(entry, KeyResponse, PyDict(<<>>)), redacted))

\* analyze.py:279-358  the list entries after format_conversations has run
EntriesAfterFormat(entries, redacted) ==
    [i \in 1..Len(entries) |-> EntryAfterFormat(entries[i], redacted)]

\* analyze.py:180-222  the list entries after analyze has run: the loop reads
\* entries through get and isinstance, and writes its own accumulators
EntriesAfterAnalyze(entries) == entries

InitAnalysis ==
    /\ anEntries = <<>>
    /\ anOriginal = <<>>
    /\ anProfile \in Profiles
    /\ anPc = "build"
    /\ anStats = NoStats
    /\ anReport = <<>>

AnalysisParked ==
    /\ anEntries = <<>>
    /\ anOriginal = <<>>
    /\ anProfile = [name |-> "default", report_title |-> "Traffic Analysis Report",
                    redacted_headers |-> DefaultRedacted]
    /\ anPc = "build"
    /\ anStats = NoStats
    /\ anReport = <<>>

\* one more exchange is in the list the analyzer will be given
AddExchange ==
    /\ UNCHANGED NotAnalysis
    /\ anPc = "build" /\ Len(anEntries) < MaxExchanges
    /\ \E k \in 1..Len(Exchanges) :
         /\ anEntries' = Append(anEntries, Exchanges[k].value)
         /\ anOriginal' = Append(anOriginal, Exchanges[k].value)
    /\ UNCHANGED <<anProfile, anPc, anStats, anReport>>

\* analyze.py:148-239  analyze(entries)
Analyze ==
    /\ UNCHANGED NotAnalysis
    /\ anPc = "build"
    /\ IF AnalyzeRaises(anEntries)
         THEN /\ anPc' = "raised"
              /\ UNCHANGED <<anStats, anEntries>>
         ELSE /\ anPc' = "analyzed"
              /\ anStats' = analyze(anEntries)
              /\ anEntries' = EntriesAfterAnalyze(anEntries)
    /\ UNCHANGED <<anOriginal, anProfile, anReport>>

\* analyze.py:361-460  format_report(analysis_data, entries, input_path, profile)
AssembleReport ==
    /\ UNCHANGED NotAnalysis
    /\ anPc = "analyzed"
    /\ anReport' = format_report(anStats, ExchangeRecords(anEntries),
                                 "traffic.jsonl", anProfile)
    /\ anEntries' = EntriesAfterFormat(anEntries, anProfile.redacted_headers)
    /\ anPc' = "reported"
    /\ UNCHANGED <<anOriginal, anProfile, anStats>>

(***************************************************************************)
(* The command lines: main of analyze.py with load_entries, main of        *)
(* runner.py.  A shell session is followed up to the first program that    *)
(* gets past its profile lookup.                                           *)
(***************************************************************************)
\* a lookup that falls back to a profile for any name
KnownTargets_Any == {"codex", "nosuch"}

\* the packages under agent_system_dissect/probe/targets
KnownTargets == {"codex"}
TargetNames == {"codex", "nosuch"}

\* analyze.py:485, codex/traffic.py:43-49  module.analysis_profile
AnalysisProfileOf(target_name) ==
    [name |-> "codex", report_title |-> "Codex Traffic Analysis Report",
     redacted_headers |-> CodexRedacted]

\* lines a log may hold: two exchanges as the addon writes them, a line of
\* blanks, a line cut short, a line that is JSON but no object
LogLineKinds ==
    << [line |-> Exchanges[1].line, decodes |-> TRUE, value |-> Exchanges[1].value],
       [line |-> Exchanges[3].line, decodes |-> TRUE, value |-> Exchanges[3].value],
       [line |-> <<" ", " ">>, decodes |-> FALSE, value |-> PyNone],
       [line |-> <<"{", "\"", "r", "e", "q", "u", "e", "s", "t", "\"", ":", " ">>, decodes |-> FALSE, value |-> PyNone],
       [line |-> <<"1">>, decodes |-> TRUE, value |-> PyInt(1)] >>

\* append that lets json.JSONDecodeError escape (no except clause): the error
\* takes the place of the value
AppendDecoded_NoExcept(entries, v) == Append(entries, v)

\* analyze.py:71-75  try: entries.append(json.loads(line)); except
\* json.JSONDecodeError: a warning is printed
AppendDecoded(entries, v) == IF v = JsonError THEN entries ELSE Append(entries, v)

\* analyze.py:70-72  if not line: continue; line is the stripped line
LoadStripped(entries, line) ==
    IF line = <<>> THEN entries ELSE AppendDecoded(entries, JsonLoads(line))

\* analyze.py:68-75  the loop over the lines of the file
RECURSIVE LoadFrom(_, _, _)
LoadFrom(lines, i, entries) ==
    IF i > Len(lines) THEN entries
    ELSE LoadFrom(lines, i + 1, LoadStripped(entries, Strip(lines[i])))

\* analyze.py:51-76  load_entries(path), lines being the lines of the file
load_entries(lines) == LoadFrom(lines, 1, <<>>)

\* posixpath.dirname(p), for paths without a doubled or trailing slash
DirName(p) ==
    IF \E i \in 1..Len(p) : p[i] = "/"
      THEN SubSeq(p, 1, (CHOOSE i \in 1..Len(p) :
                           p[i] = "/" /\ \A k \in (i + 1)..Len(p) : p[k] # "/") - 1)
      ELSE <<>>

\* posixpath.join(a, b) for a relative b
PathJoin(a, b) == IF a = <<>> THEN b ELSE a \o <<"/">> \o b

ReportName == <<"a", "n", "a", "l", "y", "s", "i", "s", "_", "r", "e", "p", "o", "r", "t", ".", "m", "d">>

\* analyze.py:515-517  output_path = args.output or join(dirname(input_path), ...)
OutputPath(args) ==
    IF args.output # <<>> THEN args.output ELSE PathJoin(DirName(args.input), ReportName)

\* analyze.py:532  os.path.dirname(output_path) or "."
OutputDir(path) == IF DirName(path) = <<>> THEN <<".">> ELSE DirName(path)

\* the command lines of the model
AnalysisArgs ==
    { [cli |-> "analyze", target |-> t, input |-> a.input, output |-> a.output] :
        t \in TargetNames,
        a \in { [input |-> <<"t", "r", "a", "f", "f", "i", "c", ".", "j", "s", "o", "n", "l">>, output |-> <<>>],
                [input |-> <<"t", "m", "p", "/", "c", "o", "d", "e", "x", "-", "t", "r", "a", "f", "f", "i", "c", "/", "t", "r", "a", "f", "f", "i", "c", ".", "j", "s", "o", "n", "l">>, output |-> <<>>],
                [input |-> <<"t", "r", "a", "f", "f", "i", "c", ".", "j", "s", "o", "n", "l">>, output |-> <<"o", "u", "t", "/", "r", "e", "p", "o", "r", "t", ".", "m", "d">>] } }

CaptureArgs ==
    { [cli |-> "capture", target |-> t, input |-> <<>>, output |-> <<>>] : t \in TargetNames }

NoArgs == [cli |-> "none", target |-> "none", input |-> <<>>, output |-> <<>>]

ExitWith(status, diagnostic) == <<[status |-> status, stderr |-> diagnostic]>>

InitCli ==
    /\ cliPc = "shell"
    /\ argv = NoArgs
    /\ ran = <<>>
    /\ logExists \in BOOLEAN
    /\ logLines = <<>>
    /\ cliProfile = AnalysisProfileOf("codex")
    /\ outputPath = <<>>
    /\ cliEntries = <<>>
    /\ cliStats = NoStats
    /\ cliText = <<>>
    /\ written = <<>>
    /\ cliDirs = {}
    /\ cliExit = <<>>

CliParked ==
    /\ cliPc = "shell" /\ argv = NoArgs /\ ran = <<>> /\ logExists = FALSE
    /\ logLines = <<>> /\ cliProfile = AnalysisProfileOf("codex")
    /\ outputPath = <<>> /\ cliEntries = <<>> /\ cliStats = NoStats
    /\ cliText = <<>> /\ written = <<>> /\ cliDirs = {} /\ cliExit = <<>>

\* capture_addon.py:85-92  a line is in the log before the session starts
LogLineWritten ==
    /\ UNCHANGED NotCli
    /\ cliPc = "shell" /\ ran = <<>> /\ logExists /\ Len(logLines) < MaxLogLines
    /\ \E k \in 1..Len(LogLineKinds) :
         logLines' = Append(logLines, LogLineKinds[k].line \o NL)
    /\ UNCHANGED <<cliPc, argv, ran, logExists, cliProfile, outputPath, cliEntries,
                   cliStats, cliText, written, cliDirs, cliExit>>

\* a command line is entered: each program once
Invoke ==
    /\ UNCHANGED NotCli
    /\ cliPc = "shell"
    /\ \E a \in AnalysisArgs \cup CaptureArgs :
         /\ \A i \in 1..Len(ran) : ran[i].cli # a.cli
         /\ a.cli = "capture" => logLines = <<>>
         /\ argv' = a
    /\ cliPc' = "main"
    /\ cliExit' = <<>>
    /\ UNCHANGED <<ran, logExists, logLines, cliProfile, outputPath, cliEntries,
                   cliStats, cliText, written, cliDirs>>

\* importlib.import_module raises ModuleNotFoundError, which leaves main: the
\* interpreter prints the traceback and exits with status 1
UnknownTarget ==
    /\ cliExit' = ExitWith(1, "ModuleNotFoundError")
    /\ ran' = Append(ran, [cli |-> argv.cli, target |-> argv.target, status |-> 1])
    /\ cliPc' = "shell"

\* analyze.py:510-512  profile = load_analysis_profile(args.target)
LoadAnalysisProfile ==
    /\ UNCHANGED NotCli
    /\ cliPc = "main" /\ argv.cli = "analyze"
    /\ IF argv.target \in KnownTargets
         THEN /\ cliProfile' = AnalysisProfileOf(argv.target)
              /\ cliPc' = "exists"
              /\ UNCHANGED <<ran, cliExit>>
         ELSE /\ UnknownTarget
              /\ UNCHANGED cliProfile
    /\ UNCHANGED <<argv, logExists, logLines, outputPath, cliEntries, cliStats,
                   cliText, written, cliDirs>>

\* analyze.py:514-521  output_path; if not os.path.exists(input_path): sys.exit(1)
CheckInput ==
    /\ UNCHANGED NotCli
    /\ cliPc = "exists"
    /\ outputPath' = OutputPath(argv)
    /\ IF logExists
         THEN cliPc' = "load" /\ UNCHANGED cliExit
         ELSE cliPc' = "done" /\ cliExit' = ExitWith(1, "ERROR: input file not found")
    /\ UNCHANGED <<argv, ran, logExists, logLines, cliProfile, cliEntries, cliStats,
                   cliText, written, cliDirs>>

\* analyze.py:523-526  entries = load_entries(input_path), loaded being what it
\* returns; if not entries: sys.exit(1)
EntriesLoaded(loaded) ==
    IF \E i \in 1..Len(loaded) : loaded[i] = JsonError
      THEN /\ cliPc' = "done"
           /\ cliExit' = ExitWith(1, "JSONDecodeError")
           /\ UNCHANGED cliEntries
    ELSE IF loaded = <<>>
      THEN /\ cliPc' = "done"
           /\ cliExit' = ExitWith(1, "ERROR: no entries found")
           /\ cliEntries' = loaded
    ELSE /\ cliPc' = "analyze"
         /\ cliEntries' = loaded
         /\ UNCHANGED cliExit

LoadEntries ==
    /\ UNCHANGED NotCli
    /\ cliPc = "load"
    /\ EntriesLoaded(load_entries(logLines))
    /\ UNCHANGED <<argv, ran, logExists, logLines, cliProfile, outputPath, cliStats,
                   cliText, written, cliDirs>>

\* analyze.py:528-529  analysis_data = analyze(entries); an AttributeError
\* leaves main
AnalyzeEntries ==
    /\ UNCHANGED NotCli
    /\ cliPc = "analyze"
    /\ IF AnalyzeRaises(cliEntries)
         THEN /\ cliPc' = "done"
              /\ cliExit' = ExitWith(1, "AttributeError")
              /\ UNCHANGED cliStats
         ELSE /\ cliPc' = "format"
              /\ cliStats' = analyze(cliEntries)
              /\ UNCHANGED cliExit
    /\ UNCHANGED <<argv, ran, logExists, logLines, cliProfile, outputPath, cliEntries,
                   cliText, written, cliDirs>>

\* analyze.py:530  report = format_report(analysis_data, entries, input_path, profile)
FormatEntries ==
    /\ UNCHANGED NotCli
    /\ cliPc = "format"
    /\ cliText' = format_report(cliStats, ExchangeRecords(cliEntries), argv.input, cliProfile)
    /\ cliPc' = "write"
    /\ UNCHANGED <<argv, ran, logExists, logLines, cliProfile, outputPath, cliEntries,
                   cliStats, written, cliDirs, cliExit>>

\* analyze.py:532-535  makedirs, the report is written, main returns
WriteReport ==
    /\ UNCHANGED NotCli
    /\ cliPc = "write"
    /\ cliDirs' = cliDirs \cup {OutputDir(outputPath)}
    /\ written' = DictSet(written, outputPath, cliText)
    /\ cliExit' = ExitWith(0, "")
    /\ cliPc' = "done"
    /\ UNCHANGED <<argv, ran, logExists, logLines, cliProfile, outputPath, cliEntries,
                   cliStats, cliText>>

\* runner.py:199-206  profile = load_capture_profile(args.target); run(profile,
\* args.command or None) is entered with the profile's proxies and the command
LoadCaptureProfile ==
    /\ UNCHANGED <<logVars, sseVars, redactVars, reportVars, loopVars, analysisVars, envVars, bodyVars, msgVars, reqVars>>
    /\ cliPc = "main" /\ argv.cli = "capture"
    /\ IF argv.target \in KnownTargets
         THEN /\ cliPc' = "run"
              /\ nprox' \in 1..MaxProxies
              /\ hasCmd' \in BOOLEAN
              /\ UNCHANGED <<ran, cliExit>>
         ELSE /\ UnknownTarget
              /\ UNCHANGED <<nprox, hasCmd>>
    /\ UNCHANGED <<pc, procs, fresh, lst, termSent, frames, installed, sigs, idx,
                   cmdRc, exitStatus, endKind, hist>>
    /\ UNCHANGED <<argv, logExists, logLines, cliProfile, outputPath, cliEntries,
                   cliStats, cliText, written, cliDirs>>

\* runner.py:65-171  run() and the listeners it starts
CaptureRuns ==
    /\ cliPc = "run"
    /\ \/ RunnerStep
       \/ ListenerDies
       \/ ListenerTerminates

(***************************************************************************)
(* The environments of run(): os.environ, the copy the listeners get, the  *)
(* copy with the overrides the target command gets; the addon's read of    *)
(* TRAFFIC_OUTPUT_DIR.  Dict objects live in a heap, so that a name bound  *)
(* without a copy shares its object.                                       *)
(***************************************************************************)
OutputDirVar == "TRAFFIC_OUTPUT_DIR"

\* os.getcwd() of the runner
Cwd == <<"/", "w">>

\* capture_addon.py:24-25  dirname(SCRIPT_DIR), the addon's fallback
AddonDefaultDir == <<"/", "r", "e", "p", "o", "/", "s", "r", "c", "/", "a", "g", "e", "n", "t", "_", "s", "y", "s", "t", "e", "m", "_", "d", "i", "s", "s", "e", "c", "t", "/", "p", "r", "o", "b", "e", "/", "t", "o", "o", "l", "s">>

\* what os.environ may hold when the runner starts
Ambients ==
    { << <<"PATH", <<"/", "b", "i", "n">>>> >>,
      << <<"PATH", <<"/", "b", "i", "n">>>>, <<"OPENAI_BASE_URL", <<"h", "t", "t", "p", "s", ":", "/", "/", "a", "p", "i", ".", "o", "p", "e", "n", "a", "i", ".", "c", "o", "m", "/", "v", "1">>>> >>,
      << <<"TRAFFIC_OUTPUT_DIR", <<"/", "o", "l", "d">>>>, <<"PATH", <<"/", "b", "i", "n">>>> >>,
      << <<"OPENAI_BASE_URL", <<"h", "t", "t", "p", "s", ":", "/", "/", "a", "p", "i", ".", "o", "p", "e", "n", "a", "i", ".", "c", "o", "m", "/", "v", "1">>>>, <<"TRAFFIC_OUTPUT_DIR", <<"/", "o", "l", "d">>>> >> }

\* codex/traffic.py:33-35 env_overrides, no override, two overrides
OverrideSets ==
    { << <<"OPENAI_BASE_URL", <<"h", "t", "t", "p", ":", "/", "/", "1", "2", "7", ".", "0", ".", "0", ".", "1", ":", "8", "0", "8", "0", "/", "v", "1">>>> >>,
      << >>,
      << <<"OPENAI_BASE_URL", <<"h", "t", "t", "p", ":", "/", "/", "1", "2", "7", ".", "0", ".", "0", ".", "1", ":", "8", "0", "8", "0", "/", "v", "1">>>>, <<"NO_PROXY", <<"1", "2", "7", ".", "0", ".", "0", ".", "1">>>> >> }

\* profile.output_dir: the codex profile's, an absolute --output-dir, one with
\* dot segments; resolved is what os.path.abspath makes of it under Cwd
OutputDirs ==
    { [dir |-> <<"t", "m", "p", "/", "c", "o", "d", "e", "x", "-", "t", "r", "a", "f", "f", "i", "c">>, resolved |-> <<"/", "w", "/", "t", "m", "p", "/", "c", "o", "d", "e", "x", "-", "t", "r", "a", "f", "f", "i", "c">>],
      [dir |-> <<"/", "d", "a", "t", "a", "/", "c", "a", "p">>, resolved |-> <<"/", "d", "a", "t", "a", "/", "c", "a", "p">>],
      [dir |-> <<".", "/", "o", "u", "t", "/", ".", ".", "/", "c", "a", "p", "/">>, resolved |-> <<"/", "w", "/", "c", "a", "p">>] }

\* posixpath.normpath: the loop over the components
RECURSIVE NormComps(_, _, _, _)
NormComps(comps, i, absolute, new_comps) ==
    IF i > Len(comps) THEN new_comps
    ELSE IF comps[i] \in {<<>>, <<".">>} THEN NormComps(comps, i + 1, absolute, new_comps)
    ELSE IF \/ comps[i] # <<".", ".">>
            \/ (~absolute /\ new_comps = <<>>)
            \/ (new_comps # <<>> /\ new_comps[Len(new_comps)] = <<".", ".">>)
      THEN NormComps(comps, i + 1, absolute, Append(new_comps, comps[i]))
    ELSE IF new_comps # <<>>
      THEN NormComps(comps, i + 1, absolute, SubSeq(new_comps, 1, Len(new_comps) - 1))
    ELSE NormComps(comps, i + 1, absolute, new_comps)

\* posixpath.normpath(path) for a path that starts with one slash
NormPath(path) == <<"/">> \o Join(NormComps(Split(path, <<"/">>), 1, TRUE, <<>>), <<"/">>)

\* os.path.abspath(path)
AbsPath(path) ==
    IF path # <<>> /\ path[1] = "/" THEN NormPath(path)
    ELSE NormPath(Cwd \o <<"/">> \o path)

\* a name bound to the dict itself: no new object
DictCopy_Alias(h, ref) == [ref |-> ref, heap |-> h]

\* d.copy(): a new object with the items of d
DictCopy(h, ref) == [ref |-> Len(h) + 1, heap |-> Append(h, h[ref])]

\* d.update(other)
RECURSIVE DictUpdate(_, _, _)
DictUpdate(items, other, i) ==
    IF i > Len(other) THEN items
    ELSE DictUpdate(DictSet(items, other[i][1], other[i][2]), other, i + 1)

\* capture_addon.py:24-26  os.environ.get("TRAFFIC_OUTPUT_DIR", dirname(SCRIPT_DIR))
AddonOutputDir(environment) == ItemsGet(environment, OutputDirVar, AddonDefaultDir)

InitEnv ==
    /\ envPc = "which"
    /\ envProfile \in [output_dir : {d.dir : d \in OutputDirs},
                       env_overrides : OverrideSets,
                       nproxies : 1..MaxProxies]
    /\ envHasCmd \in BOOLEAN
    /\ ambient \in Ambients
    /\ heap = <<ambient>>
    /\ envRef = 0
    /\ outputDir = <<>>
    /\ listenerEnvs = <<>>
    /\ addonDirs = <<>>
    /\ targetEnv = <<>>

EnvParked ==
    /\ envPc = "which"
    /\ envProfile = [output_dir |-> <<>>, env_overrides |-> <<>>, nproxies |-> 1]
    /\ envHasCmd = FALSE /\ ambient = <<>> /\ heap = <<ambient>> /\ envRef = 0
    /\ outputDir = <<>> /\ listenerEnvs = <<>> /\ addonDirs = <<>> /\ targetEnv = <<>>

\* runner.py:82-91  mitmdump is looked up (sys.exit(1) when it is missing);
\* output_dir = os.path.abspath(profile.output_dir)
ResolveOutputDir ==
    /\ UNCHANGED NotEnv
    /\ envPc = "which"
    /\ \/ /\ outputDir' = AbsPath(envProfile.output_dir)
          /\ envPc' = "environ"
       \/ /\ envPc' = "ended"
          /\ UNCHANGED outputDir
    /\ UNCHANGED <<envProfile, envHasCmd, ambient, heap, envRef, listenerEnvs,
                   addonDirs, targetEnv>>

\* runner.py:108-109  env = os.environ.copy(); env["TRAFFIC_OUTPUT_DIR"] = output_dir
EnvAssigned(copied) ==
    /\ envRef' = copied.ref
    /\ heap' = [copied.heap EXCEPT ![copied.ref] = DictSet(@, OutputDirVar, outputDir)]

CopyEnviron ==
    /\ UNCHANGED NotEnv
    /\ envPc = "environ"
    /\ EnvAssigned(DictCopy(heap, 1))
    /\ envPc' = "popen"
    /\ UNCHANGED <<envProfile, envHasCmd, ambient, outputDir, listenerEnvs, addonDirs,
                   targetEnv>>

\* runner.py:126-136  subprocess.Popen(cmd, env=env): the process gets the
\* items env holds now; capture_addon.py:24-26 runs in that process
PopenListener ==
    /\ UNCHANGED NotEnv
    /\ envPc = "popen"
    /\ IF Len(listenerEnvs) < envProfile.nproxies
         THEN /\ listenerEnvs' = Append(listenerEnvs, heap[envRef])
              /\ addonDirs' = Append(addonDirs, AddonOutputDir(heap[envRef]))
              /\ UNCHANGED envPc
         ELSE /\ envPc' = "target"
              /\ UNCHANGED <<listenerEnvs, addonDirs>>
    /\ UNCHANGED <<envProfile, envHasCmd, ambient, heap, envRef, outputDir, targetEnv>>

\* runner.py:152-157  target_env = env.copy(); target_env.update(
\* profile.env_overrides); subprocess.run(target_cmd, env=target_env)
TargetStarted(copied) ==
    /\ heap' = [copied.heap EXCEPT ![copied.ref] = DictUpdate(@, envProfile.env_overrides, 1)]
    /\ targetEnv' = <<heap'[copied.ref]>>

RunTarget ==
    /\ UNCHANGED NotEnv
    /\ envPc = "target"
    /\ IF envHasCmd
         THEN TargetStarted(DictCopy(heap, envRef))
         ELSE UNCHANGED <<heap, targetEnv>>
    /\ envPc' = "ended"
    /\ UNCHANGED <<envProfile, envHasCmd, ambient, envRef, outputDir, listenerEnvs,
                   addonDirs>>

\* runner.py:113-123, 140-148, 169-171  a signal or a listener that has died
\* ends run() before the target command is started
RunCutShort ==
    /\ UNCHANGED NotEnv
    /\ envPc \in {"popen", "target"}
    /\ envPc' = "ended"
    /\ UNCHANGED <<envProfile, envHasCmd, ambient, heap, envRef, outputDir,
                   listenerEnvs, addonDirs, targetEnv>>

(***************************************************************************)
(* A text response body, line by line, and the response renderer applied   *)
(* to it: the test of openai_responses.py:190 next to the decoder's        *)
(* prefix of sse.py:46.                                                    *)
(***************************************************************************)
\* lines a text body may hold
BodyLineKinds ==
    << <<"e", "v", "e", "n", "t", ":", " ", "f", "o", "o">>, <<"e", "v", "e", "n", "t", ":", "f", "o", "o">>, <<"e", "v", "e", "n", "t", ":", " ">>, <<"d", "a", "t", "a", ":", " ", "{", "\"", "a", "\"", ":", "1", "}">>, <<"h", "e", "l", "l", "o">>, <<" ", "e", "v", "e", "n", "t", ":", " ", "f", "o", "o">>, <<>> >>

InitBody ==
    /\ bodyText = <<>>
    /\ bodyLines = 0
    /\ bodyPc = "build"
    /\ bodyEvents = <<>>
    /\ bodyRendered = [kind |-> "none"]

BodyParked == InitBody

\* capture_addon.py:60-66  the upstream's text, a line at a time
BodyLine ==
    /\ UNCHANGED NotBody
    /\ bodyPc = "build" /\ bodyLines < MaxBodyLines
    /\ \E k \in 1..Len(BodyLineKinds) : bodyText' = bodyText \o BodyLineKinds[k] \o NL
    /\ bodyLines' = bodyLines + 1
    /\ UNCHANGED <<bodyPc, bodyEvents, bodyRendered>>

\* openai_responses.py:190  the body is taken for an event stream
IsSseBody(text) == StartsWith(Lstrip(text), SsePrefix)

\* analyze.py:347-351, openai_responses.py:142-287  the renderer is called
\* with the body; line 198 hands it to parse_sse_events when line 190 lets it
RenderResponse ==
    /\ UNCHANGED NotBody
    /\ bodyPc = "build"
    /\ bodyRendered' = format_response_body(PyStr(bodyText))
    /\ bodyEvents' = IF IsSseBody(bodyText) THEN parse_sse_events(bodyText).events ELSE <<>>
    /\ bodyPc' = "rendered"
    /\ UNCHANGED <<bodyText, bodyLines>>

(***************************************************************************)
(* A message under construction and its extracted texts                   *)
(***************************************************************************)
\* content parts: two with text (one of two lines), one without a text
\* field, an item that is no object, one whose text is empty
PartKinds ==
    << PyDict(<< <<KeyType, PyStr(<<"i", "n", "p", "u", "t", "_", "t", "e", "x", "t">>)>>, <<KeyText, PyStr(<<"a">>)>> >>),
       PyDict(<< <<KeyText, PyStr(<<"b", "\n", "c">>)>> >>),
       PyDict(<< <<KeyType, PyStr(<<"i", "n", "p", "u", "t", "_", "i", "m", "a", "g", "e">>)>> >>),
       PyStr(<<"x">>),
       PyDict(<< <<KeyText, PyStr(<<>>)>> >>) >>

InitMsg ==
    /\ msgContent = <<>>
    /\ msgPc = "build"
    /\ msgFull = Returns(<<>>)
    /\ msgPreview = Returns(<<>>)

MsgParked == InitMsg

\* the client puts a content part into the message
AddPart ==
    /\ UNCHANGED NotMsg
    /\ msgPc = "build" /\ Len(msgContent) < MaxParts
    /\ \E k \in 1..Len(PartKinds) : msgContent' = Append(msgContent, PartKinds[k])
    /\ UNCHANGED <<msgPc, msgFull, msgPreview>>

\* openai_responses.py:100-109  the renderer extracts preview and full text
ExtractContent ==
    /\ UNCHANGED NotMsg
    /\ msgPc = "build"
    /\ msgPreview' = message_content_preview(PyList(msgContent))
    /\ msgFull' = message_content_full(PyList(msgContent))
    /\ msgPc' = "extracted"
    /\ UNCHANGED msgContent

(***************************************************************************)
(* The request renderer on the body of one exchange, as                    *)
(* format_conversations calls it (analyze.py:336)                          *)
(***************************************************************************)
\* fields of a Responses API request body: input as a plain string, as a
\* list of messages, as a list with a number, as a message whose part has a
\* null text; tools as a list of definitions and as a list of names;
\* instructions as a string and as a number; a model name
FieldKinds ==
    << <<KeyInput, PyStr(<<"h", "e", "l", "l", "o">>)>>,
       <<KeyInput, PyList(<<PyDict(<< <<<<"r", "o", "l", "e">>, PyStr(<<"u", "s", "e", "r">>)>>, <<KeyContent, PyStr(<<"h", "i">>)>> >>)>>)>>,
       <<KeyInput, PyList(<<PyInt(1)>>)>>,
       <<KeyInput, PyList(<<PyDict(<< <<KeyContent, PyList(<<PyDict(<< <<KeyText, PyNone>> >>)>>)>> >>)>>)>>,
       <<KeyTools, PyList(<<PyDict(<< <<<<"n", "a", "m", "e">>, PyStr(<<"f">>)>>, <<KeyType, PyStr(<<"f", "u", "n", "c", "t", "i", "o", "n">>)>> >>)>>)>>,
       <<KeyTools, PyList(<<PyStr(<<"x">>)>>)>>,
       <<KeyInstructions, PyStr(<<"b", "e", " ", "k", "i", "n", "d">>)>>,
       <<KeyInstructions, PyInt(5)>>,
       <<<<"m", "o", "d", "e", "l">>, PyStr(<<"m">>)>> >>

\* the bodies a logged request starts from: none, raw text, a list, an object
BodyBases == {PyNone, PyStr(<<"h", "i">>), PyList(<<PyInt(1)>>), PyDict(<<>>)}

InitReq ==
    /\ reqBody \in BodyBases
    /\ reqPc = "build"
    /\ reqText = [kind |-> "no body"]

ReqParked ==
    /\ reqBody = PyNone
    /\ reqPc = "build"
    /\ reqText = [kind |-> "no body"]

\* the client sets one more field of the request object
SetField ==
    /\ UNCHANGED NotReq
    /\ reqPc = "build" /\ reqBody.t = "dict" /\ Len(reqBody.items) < MaxFields
    /\ \E k \in 1..Len(FieldKinds) :
         /\ \A i \in 1..Len(reqBody.items) : reqBody.items[i][1] # FieldKinds[k][1]
         /\ reqBody' = PyDict(Append(reqBody.items, FieldKinds[k]))
    /\ UNCHANGED <<reqPc, reqText>>

\* analyze.py:336  profile.request_body_renderer(req.get("body")), outside
\* any try
RenderRequest ==
    /\ UNCHANGED NotReq
    /\ reqPc = "build"
    /\ reqText' = format_request_body(reqBody)
    /\ reqPc' = IF format_request_body(reqBody).kind = "raise" THEN "raised" ELSE "rendered"
    /\ UNCHANGED reqBody

(***************************************************************************)
(* Specifications                                                          *)
(***************************************************************************)
Init == InitRunner /\ LogParked /\ SseParked /\ RedactParked /\ ReportParked /\ LoopParked /\ AnalysisParked /\ CliParked /\ EnvParked /\ BodyParked /\ MsgParked /\ ReqParked

Next ==
    \/ RunnerStep
    \/ Interrupt
    \/ ListenerDies
    \/ ListenerTerminates

\* the capture runner
Spec == Init /\ [][Next]_vars

\* the interpreter keeps executing run() and cleanup(); a listener that was
\* sent SIGTERM shuts down; the target command is not assumed to finish
RunnerFairness ==
    /\ WF_vars(CheckMitmdump) /\ WF_vars(InstallHandlers)
    /\ WF_vars(StartListener) /\ WF_vars(AppendListener)
    /\ WF_vars(Settle) /\ WF_vars(PollListener) /\ WF_vars(ExitAfterDead)
    /\ WF_vars(Branch) /\ WF_vars(ExitWithCommandCode)
    /\ WF_vars(WaitListener) /\ WF_vars(HandleException) /\ WF_vars(Reraise)
    /\ WF_vars(CleanupStep)
    /\ WF_vars(ListenerTerminates)

FairSpec == Init /\ [][Next]_vars /\ RunnerFairness

\* the mitmdump processes appending to the shared log
InitLogSpec ==
    InitLog /\ RunnerParked /\ SseParked /\ RedactParked /\ ReportParked /\ LoopParked /\ AnalysisParked /\ CliParked /\ EnvParked /\ BodyParked /\ MsgParked /\ ReqParked

NextLog ==
    \/ Open
    \/ Lock
    \/ Write
    \/ Flush
    \/ Unlock
    \/ Close

SpecLog == InitLogSpec /\ [][NextLog]_vars

\* an event-stream respBody, the decoder and the renderer
InitSseSpec ==
    InitSse /\ RunnerParked /\ LogParked /\ RedactParked /\ ReportParked /\ LoopParked /\ AnalysisParked /\ CliParked /\ EnvParked /\ BodyParked /\ MsgParked /\ ReqParked

NextSse ==
    \/ EmitDelta
    \/ EmitOther
    \/ EmitNoise
    \/ EmitJunk
    \/ CutStream
    \/ Decode
    \/ Render

SpecSse == InitSseSpec /\ [][NextSse]_vars

\* the headers of a logged exchange and their redaction under a profile
InitRedactSpec ==
    InitRedact /\ RunnerParked /\ LogParked /\ SseParked /\ ReportParked /\ LoopParked /\ AnalysisParked /\ CliParked /\ EnvParked /\ BodyParked /\ MsgParked /\ ReqParked

NextRedact ==
    \/ AddHeader
    \/ Redact

SpecRedact == InitRedactSpec /\ [][NextRedact]_vars

\* the analysis run more than once over an unchanged log while time passes
InitReportSpec ==
    InitReport /\ RunnerParked /\ LogParked /\ SseParked /\ RedactParked /\ LoopParked /\ AnalysisParked /\ CliParked /\ EnvParked /\ BodyParked /\ MsgParked /\ ReqParked

NextReport ==
    \/ Tick
    \/ FormatReport

SpecReport == InitReportSpec /\ [][NextReport]_vars

\* a body built line by line, then decoded block by block
InitLoopSpec ==
    InitLoop /\ RunnerParked /\ LogParked /\ SseParked /\ RedactParked /\ ReportParked /\ AnalysisParked /\ CliParked /\ EnvParked /\ BodyParked /\ MsgParked /\ ReqParked

NextLoop ==
    \/ WriteLine
    \/ EnterLoop
    \/ LoopBlock
    \/ LoopReturn

SpecLoop == InitLoopSpec /\ [][NextLoop]_vars

\* a list of exchanges is built and handed to the analyzer
InitAnalysisSpec ==
    InitAnalysis /\ RunnerParked /\ LogParked /\ SseParked /\ RedactParked /\ ReportParked /\ LoopParked /\ CliParked /\ EnvParked /\ BodyParked /\ MsgParked /\ ReqParked

NextAnalysis ==
    \/ AddExchange
    \/ Analyze
    \/ AssembleReport

SpecAnalysis == InitAnalysisSpec /\ [][NextAnalysis]_vars

\* a shell session: the log, then the analysis CLI and the capture CLI
InitCliSpec ==
    InitCli /\ RunnerParked /\ LogParked /\ SseParked /\ RedactParked /\ ReportParked /\ LoopParked /\ AnalysisParked /\ EnvParked /\ BodyParked /\ MsgParked /\ ReqParked

NextCli ==
    \/ LogLineWritten
    \/ Invoke
    \/ LoadAnalysisProfile
    \/ CheckInput
    \/ LoadEntries
    \/ AnalyzeEntries
    \/ FormatEntries
    \/ WriteReport
    \/ LoadCaptureProfile
    \/ CaptureRuns

SpecCli == InitCliSpec /\ [][NextCli]_vars

\* run() of runner.py, its environments only
InitEnvSpec ==
    InitEnv /\ RunnerParked /\ LogParked /\ SseParked /\ RedactParked /\ ReportParked /\ LoopParked /\ AnalysisParked /\ CliParked /\ BodyParked /\ MsgParked /\ ReqParked

NextEnv ==
    \/ ResolveOutputDir
    \/ CopyEnviron
    \/ PopenListener
    \/ RunTarget
    \/ RunCutShort

SpecEnv == InitEnvSpec /\ [][NextEnv]_vars

\* a text body and the response renderer
InitBodySpec ==
    InitBody /\ RunnerParked /\ LogParked /\ SseParked /\ RedactParked /\ ReportParked /\ LoopParked /\ AnalysisParked /\ CliParked /\ EnvParked /\ MsgParked /\ ReqParked

NextBody ==
    \/ BodyLine
    \/ RenderResponse

SpecBody == InitBodySpec /\ [][NextBody]_vars

\* the content of a message and the two extractions
InitMsgSpec ==
    InitMsg /\ RunnerParked /\ LogParked /\ SseParked /\ RedactParked /\ ReportParked /\ LoopParked /\ AnalysisParked /\ CliParked /\ EnvParked /\ BodyParked /\ ReqParked

NextMsg ==
    \/ AddPart
    \/ ExtractContent

SpecMsg == InitMsgSpec /\ [][NextMsg]_vars

\* one request body, built and rendered
InitReqSpec ==
    InitReq /\ RunnerParked /\ LogParked /\ SseParked /\ RedactParked /\ ReportParked /\ LoopParked /\ AnalysisParked /\ CliParked /\ EnvParked /\ BodyParked /\ MsgParked

NextReq ==
    \/ SetField
    \/ RenderRequest

SpecReq == InitReqSpec /\ [][NextReq]_vars

(***************************************************************************)
(* Claims about the capture runner                                         *)
(***************************************************************************)
Started == {i \in Listeners : lst[i] # "none"}
Configured == 1..nprox
AllDown == \A i \in Started : lst[i] = "reaped"

\* C7: the target command is launched only after a listener was started for
\* every configured proxy entry and every listener was found alive by the check
\* that follows the settle interval; once the check has found a listener
\* exited, the command is never launched and the runner can end only with all
\* listeners torn down and a non-zero exit status.
C7_LaunchOnlyAfterLivenessCheck ==
    /\ hist.launched =>
         /\ hist.startedAtLaunch = Configured
         /\ Range(procs) = Configured
         /\ hist.polledAlive = Configured
         /\ ~hist.foundDead
    /\ hist.foundDead =>
         /\ ~hist.launched
         /\ pc \in {"exit1", "ended"}
         /\ Ended => /\ exitStatus # <<0>> /\ exitStatus # <<>>
                     /\ endKind = "exit"
                     /\ AllDown
                     /\ Range(procs) \subseteq hist.termCalled \cap hist.waited

\* the check finds the second of two listeners dead after the first was alive
C7_Witness ==
    /\ Ended /\ hist.foundDead /\ hist.polledAlive = {1}
    /\ Len(procs) = MaxProxies /\ exitStatus = <<1>>

\* C8: when run() has ended after at least one listener was started, no started
\* listener is left running: every one of them has exited and been waited for;
\* on the paths that end by sys.exit or by re-raising, cleanup() has called
\* terminate() and wait() on each of them.
C8_NoListenerLeftRunning ==
    (Ended /\ Started # {}) =>
        /\ fresh = 0
        /\ Started = Range(procs)
        /\ AllDown
        /\ Started \subseteq hist.waited
        /\ endKind \in {"exit", "raise"} =>
              Started \subseteq hist.termCalled

\* run() ended by re-raising an exception of a later Popen, one listener started
C8_Witness ==
    /\ Ended /\ endKind = "raise" /\ Len(procs) = 1 /\ nprox = MaxProxies
    /\ ~hist.launched /\ lst[1] = "reaped" /\ 1 \in termSent

\* C9: when a command is given and every listener passed the liveness check,
\* the runner runs the command, and when it ends after the command returned,
\* a cleanup() started after the command returned has completed, all
\* listeners are down, and the exit status is the command's return code
\* (modulo 256 when the command was killed by a signal).
C9_ExitsWithCommandCode ==
    /\ (pc = "cmd" \/ cmdRc # <<>>) => (hasCmd /\ hist.launched)
    /\ (Ended /\ hasCmd /\ hist.polledAlive = Configured /\ Range(procs) = Configured
          /\ endKind # "raise") => cmdRc # <<>>
    /\ (Ended /\ cmdRc # <<>>) =>
          /\ endKind = "exit"
          /\ hist.cleanupsAfterCmd = 1
          /\ AllDown
          /\ Range(procs) \subseteq hist.termCalled \cap hist.waited
          /\ cmdRc[1] >= 0 => exitStatus = cmdRc
          /\ cmdRc[1] < 0 => exitStatus = <<cmdRc[1] + 256>>

\* the command returned 3 and the runner exited with 3
C9_Witness ==
    /\ Ended /\ cmdRc = <<3>> /\ exitStatus = <<3>> /\ nprox = MaxProxies
    /\ hist.cleanupsAfterCmd = 1

NoCmdInterrupted == ~hasCmd /\ sigs > 0
TornDownAndReturned == Ended /\ AllDown /\ hist.reported /\ frames = <<>>

\* an interrupt that arrives once a listener is registered in procs does lead
\* to the teardown and to the end of run()
InterruptAfterRegistrationTearsDown ==
    (~hasCmd /\ hist.sigRegistered) ~> TornDownAndReturned

\* C10: with no command, run() does not return from waiting while a listener
\* is running and no interrupt has arrived; once an interrupt has arrived,
\* eventually all listeners are torn down, the log location has been printed
\* and the runner has ended.
C10_BlocksUntilInterrupted ==
    /\ [](( ~hasCmd /\ endKind = "return" /\ sigs = 0) =>
            /\ \A i \in Started : lst[i] = "reaped" /\ i \notin termSent
            /\ Started = Configured)
    /\ (NoCmdInterrupted ~> TornDownAndReturned)

\* an interrupt arrived while run() was waiting on two live listeners, and run() returned
C10_InterruptedWhileWaiting ==
    /\ ~hasCmd /\ sigs = 1 /\ endKind = "return" /\ hist.reported
    /\ nprox = MaxProxies /\ termSent = Configured /\ AllDown

(***************************************************************************)
(* Claims about the shared log                                             *)
(***************************************************************************)
RECURSIVE SumTo(_, _)
SumTo(f, n) == IF n = 0 THEN 0 ELSE f[n] + SumTo(f, n - 1)

\* the append of process w that is between its write() and its flush()
InProgress(x) == wpc[x.w] = "written" /\ x.e = completed[x.w] + 1
IsSettled(x) == ~InProgress(x)

\* the file without the pieces of the append in progress
Settled == SelectSeq(file, IsSettled)

\* f is a sequence of whole lines: the pieces of one entry, all of them, in order
WholeLines(f) ==
    /\ Len(f) % MaxPieces = 0
    /\ \A j \in 0..((Len(f) \div MaxPieces) - 1) :
          \A c \in 1..MaxPieces :
             f[j * MaxPieces + c] = Piece(f[j * MaxPieces + 1].w, f[j * MaxPieces + 1].e, c)

RECURSIVE SentFragments(_, _)
SentFragments(evs, i) ==
    IF i > Len(evs) THEN <<>>
    ELSE (IF evs[i].delta THEN evs[i].frag ELSE <<>>) \o SentFragments(evs, i + 1)

SentDelta == \E i \in 1..Len(sent) : sent[i].delta

C2_OutputTextIsConcatenation ==
    (ssePc = "rendered" /\ rendered.kind = "sse" /\ wellFormed) =>
        rendered.output_text =
            IF SentDelta THEN <<SentFragments(sent, 1)>> ELSE <<>>

\* "He", an event of another type, "llo": the output text is "Hello"
C2_Witness ==
    /\ ssePc = "rendered" /\ rendered.kind = "sse" /\ wellFormed
    /\ Len(sent) = 3
    /\ sent[1].delta /\ sent[1].frag = <<"H", "e">>
    /\ ~sent[2].delta
    /\ sent[3].delta /\ sent[3].frag = <<"l", "l", "o">>
    /\ rendered.output_text = << <<"H", "e", "l", "l", "o">> >>

(***************************************************************************)
(* Claims about header redaction                                           *)
(***************************************************************************)
\* the header name k equals a member of the redaction set, letter case ignored
MatchesIgnoringCase(k, redacted) == \E r \in redacted : Lower(r) = Lower(k)

\* the output has exactly the input's header names, in the input's order
SameNames ==
    /\ Len(redactOut) = Len(reqHeaders)
    /\ \A i \in 1..Len(reqHeaders) : redactOut[i][1] = reqHeaders[i][1]

EndsWithMarker(v) ==
    Len(v) >= Len(Marker) /\ SubSeq(v, Len(v) - Len(Marker) + 1, Len(v)) = Marker

LowercaseSet(redacted) == \A r \in redacted : Lower(r) = r

\* C3: every header whose name matches a redacted name in any letter case has
\* its value replaced, a value longer than 20 characters by its first 20
\* characters and the marker, a shorter one by the marker alone; every other
\* header keeps its value; the output has exactly the input's header names
C3_RedactsMatchingHeaders ==
    redPc = "done" =>
        /\ SameNames
        /\ \A i \in 1..Len(reqHeaders) :
             redactOut[i][2] =
                IF MatchesIgnoringCase(reqHeaders[i][1], theProfile.redacted_headers)
                  THEN RedactedValue(reqHeaders[i][2])
                  ELSE reqHeaders[i][2]

\* what holds of redact_headers: the same, for a redaction set written in
\* lower case; under any set no header is dropped and a header whose name
\* matches no member keeps its value
RedactsUnderLowercaseSet ==
    redPc = "done" =>
        /\ SameNames
        /\ \A i \in 1..Len(reqHeaders) :
             /\ ~MatchesIgnoringCase(reqHeaders[i][1], theProfile.redacted_headers)
                  => redactOut[i][2] = reqHeaders[i][2]
             /\ (/\ LowercaseSet(theProfile.redacted_headers)
                 /\ MatchesIgnoringCase(reqHeaders[i][1], theProfile.redacted_headers))
                  => redactOut[i][2] = RedactedValue(reqHeaders[i][2])

\* C4: a header is redacted whenever its name equals a member of the profile's
\* redaction set ignoring letter case, however the profile wrote that member
C4_MatchIsCaseInsensitive ==
    redPc = "done" =>
        \A i \in 1..Len(redactOut) :
            MatchesIgnoringCase(redactOut[i][1], theProfile.redacted_headers)
                => EndsWithMarker(redactOut[i][2])

(***************************************************************************)
(* Claims about report assembly                                            *)
(***************************************************************************)
SameSecond(t, u) == t \div TicksPerSecond = u \div TicksPerSecond

\* the lines of two reports agree everywhere but in the Generated line
SameButGenerated(a, b) ==
    /\ Len(a) = Len(b)
    /\ \A n \in 1..Len(a) : n # GeneratedLineNo => a[n] = b[n]

TrimmedLines(i) == Split(Strip(RawBlocks[i]), NL)

IsEventLine(l) == StartsWith(l, EventPrefix)
IsDataLine(l) == StartsWith(l, DataPrefix)
HasEventLine(ls) == \E j \in 1..Len(ls) : IsEventLine(ls[j])
HasDataLine(ls) == \E j \in 1..Len(ls) : IsDataLine(ls[j])

\* the type the last event line of the block names
LastEventType(ls) ==
    From(ls[CHOOSE j \in 1..Len(ls) :
               IsEventLine(ls[j]) /\ \A k \in (j + 1)..Len(ls) : ~IsEventLine(ls[k])], 7)

\* the text a data line carries, and the texts of a block's data lines joined
DataText(l) == IF StartsWith(l, DataSpacePrefix) THEN From(l, 6) ELSE From(l, 5)
DataTexts(ls) == [j \in 1..Len(SelectSeq(ls, IsDataLine)) |-> DataText(SelectSeq(ls, IsDataLine)[j])]
JoinedData(ls) == Join(DataTexts(ls), NL)

\* the loop and the function agree on every body
LoopIsParseSseEvents ==
    /\ loopPc # "raised"
    /\ loopPc = "returned" =>
         /\ Len(yielded) = Len(RawBlocks)
         /\ parse_sse_events(sseRaw) = [raised |-> FALSE, events |-> sseEvents]

\* C14 as stated: a block that has an event line and no data lines yields
\* exactly one event, its type taken from the event line and its data None
C14_EventOnlyBlockYieldsOneEvent ==
    \A i \in 1..Len(yielded) :
        (HasEventLine(TrimmedLines(i)) /\ ~HasDataLine(TrimmedLines(i))) =>
            yielded[i] = <<[event |-> LastEventType(TrimmedLines(i)), data |-> PyNone]>>

\* C14 as amended: a block that has no data lines and whose last event line
\* names a non-empty type yields exactly one event, of that type and with data
\* None; when the type is empty the block yields no event
C14_TypedEventOnlyBlockYieldsOneEvent ==
    \A i \in 1..Len(yielded) :
        (HasEventLine(TrimmedLines(i)) /\ ~HasDataLine(TrimmedLines(i))) =>
            yielded[i] =
                IF LastEventType(TrimmedLines(i)) # <<>>
                  THEN <<[event |-> LastEventType(TrimmedLines(i)), data |-> PyNone]>>
                  ELSE <<>>

\* the block "event: foo" has been handled: one event of type "foo", data None
C14_Witness ==
    /\ loopPc = "returned"
    /\ \E i \in 1..Len(yielded) :
         /\ TrimmedLines(i) = <<<<"e", "v", "e", "n", "t", ":", " ", "f", "o", "o">>>>
         /\ yielded[i] = <<[event |-> <<"f", "o", "o">>, data |-> PyNone]>>
    /\ \E i \in 1..Len(sseEvents) : sseEvents[i] = [event |-> <<"f", "o", "o">>, data |-> PyNone]

\* C15: a block that has data lines and no event line, the texts of the data
\* lines joined by newlines being a valid JSON text, yields exactly one event
\* with the empty type and the decoded value as data
C15_DataOnlyBlockYieldsDecodedValue ==
    \A i \in 1..Len(yielded) :
        (/\ ~HasEventLine(TrimmedLines(i))
         /\ HasDataLine(TrimmedLines(i))
         /\ JsonLoads(JoinedData(TrimmedLines(i))) # JsonError) =>
            yielded[i] = <<[event |-> <<>>,
                            data |-> JsonLoads(JoinedData(TrimmedLines(i)))]>>

\* the block data: {"a":1} has been handled: one event, type "", data {"a": 1}
C15_Witness ==
    /\ loopPc = "returned"
    /\ \E i \in 1..Len(yielded) :
         /\ TrimmedLines(i) = <<<<"d", "a", "t", "a", ":", " ", "{", "\"", "a", "\"", ":", "1", "}">>>>
         /\ yielded[i] = <<[event |-> <<>>, data |-> PyDict(<< <<<<"a">>, PyInt(1)>> >>)]>>

\* the data of a block whose joined data text is d
DataOf(d) ==
    IF d = <<>> THEN PyNone
    ELSE IF JsonLoads(d) # JsonError THEN JsonLoads(d)
    ELSE PyStr(d)

C16_EmptyDataIsNone ==
    loopPc = "returned" =>
        \A i \in 1..Len(yielded) :
            TrimmedLines(i) = <<<<"d", "a", "t", "a", ":">>>> => yielded[i] = <<[event |-> <<>>, data |-> PyNone]>>

\* the event type of a block: the type its last event line names, empty
\* without an event line
EventTypeOf(ls) == IF HasEventLine(ls) THEN LastEventType(ls) ELSE <<>>

\* C21: a block yields an event if and only if, trimmed, it is non-empty and
\* has a non-empty event type or at least one data line; no block yields more
\* than one event, and a block with neither raises nothing.
C21_EventIffTypeOrData ==
    /\ loopPc # "raised"
    /\ \A i \in 1..Len(yielded) :
         /\ Len(yielded[i]) <= 1
         /\ yielded[i] # <<>> <=>
              /\ Strip(RawBlocks[i]) # <<>>
              /\ EventTypeOf(TrimmedLines(i)) # <<>> \/ HasDataLine(TrimmedLines(i))

\* the comment block ": c" has yielded nothing and the block "event: foo"
\* after it one event; the function has returned
C21_Witness ==
    /\ loopPc = "returned"
    /\ \E i \in 1..Len(yielded) :
         /\ i + 1 <= Len(yielded)
         /\ TrimmedLines(i) = <<<<":", " ", "c">>>>
         /\ yielded[i] = <<>>
         /\ yielded[i + 1] = <<[event |-> <<"f", "o", "o">>, data |-> PyNone]>>

(***************************************************************************)
(* Claims about the analyzer                                               *)
(***************************************************************************)
\* the exchange of the model an entry is
ExchangeOf(entry) == Exchanges[CHOOSE k \in 1..Len(Exchanges) : Exchanges[k].value = entry]

\* the positions of the exchanges of the input whose endpoint is e
ExchangesOn(e) == {i \in 1..Len(anOriginal) : ExchangeOf(anOriginal[i]).endpoint = e}

\* the endpoints of the input
Endpoints == {ExchangeOf(anOriginal[i]).endpoint : i \in 1..Len(anOriginal)}

\* the names a list of <<name, value>> pairs holds, each once
NamesOnce(items) ==
    /\ \A i, j \in 1..Len(items) : items[i][1] = items[j][1] => i = j
    /\ {items[i][1] : i \in 1..Len(items)} = Endpoints

\* C17: analyze on the empty sequence returns, with total_requests = 0,
\* duration 0, both byte totals 0 and every count collection empty
C17_EmptyInputGivesEmptyStatistics ==
    (anOriginal = <<>> /\ anPc # "build") =>
        /\ anPc # "raised"
        /\ anStats.total_requests = 0
        /\ anStats.duration_seconds = 0
        /\ anStats.total_req_bytes = 0 /\ anStats.total_resp_bytes = 0
        /\ anStats.endpoint_counts = <<>> /\ anStats.method_counts = <<>>
        /\ anStats.status_counts = <<>> /\ anStats.endpoint_methods = <<>>
        /\ anStats.request_key_counts = <<>> /\ anStats.response_key_counts = <<>>
        /\ anStats.request_key_types = <<>> /\ anStats.response_key_types = <<>>

\* analyze has returned on the empty sequence
C17_Witness ==
    anOriginal = <<>> /\ anPc = "analyzed" /\ anStats.total_requests = 0

\* C18: the endpoints analyze reports are the endpoints of the input, each
\* once; the count of an endpoint is the number of exchanges with it and its
\* method list holds exactly the methods of these exchanges, each once
C18_EndpointCountsAndMethods ==
    anPc \in {"analyzed", "reported"} =>
        /\ NamesOnce(anStats.endpoint_counts)
        /\ NamesOnce(anStats.endpoint_methods)
        /\ \A i \in 1..Len(anStats.endpoint_counts) :
             anStats.endpoint_counts[i][2]
                = Cardinality(ExchangesOn(anStats.endpoint_counts[i][1]))
        /\ \A i \in 1..Len(anStats.endpoint_methods) :
             /\ Range(anStats.endpoint_methods[i][2])
                  = {ExchangeOf(anOriginal[j]).method :
                        j \in ExchangesOn(anStats.endpoint_methods[i][1])}
             /\ Len(anStats.endpoint_methods[i][2])
                  = Cardinality(Range(anStats.endpoint_methods[i][2]))

\* two exchanges to /v1/responses, a POST and a GET: count 2, methods GET, POST
C18_Witness ==
    /\ anPc = "analyzed"
    /\ Len(anOriginal) = 2
    /\ anStats.endpoint_counts = << <<<<"/", "v", "1", "/", "r", "e", "s", "p", "o", "n", "s", "e", "s">>, 2>> >>
    /\ anStats.endpoint_methods = << <<<<"/", "v", "1", "/", "r", "e", "s", "p", "o", "n", "s", "e", "s">>, <<<<"G", "E", "T">>, <<"P", "O", "S", "T">>>> >> >>

KindOf(line) == CHOOSE k \in 1..Len(LogLineKinds) : LogLineKinds[k].line \o NL = line

\* the lines of the log that are not blank and decode, in file order
DecodableLines == SelectSeq(logLines, LAMBDA l : LogLineKinds[KindOf(l)].decodes)

DecodedValues == [i \in 1..Len(DecodableLines) |-> LogLineKinds[KindOf(DecodableLines[i])].value]

\* the analysis CLI is past its call of load_entries
EntriesAreLoaded ==
    /\ argv.cli = "analyze"
    /\ \/ cliPc \in {"analyze", "format", "write"}
       \/ cliPc = "done" /\ cliExit[1].stderr # "ERROR: input file not found"

C11_UnknownTargetFailsFirst ==
    [][(cliPc = "main" /\ argv.target \notin {"codex"}) =>
          /\ cliPc' = "shell"
          /\ cliExit' # <<>> /\ cliExit'[1].status # 0
          /\ ran' = Append(ran, [cli |-> argv.cli, target |-> argv.target, status |-> cliExit'[1].status])
          /\ UNCHANGED <<written, cliDirs, logExists, logLines>>
          /\ UNCHANGED <<runnerVars, logVars, sseVars, redactVars, reportVars, loopVars, analysisVars, envVars, bodyVars, msgVars, reqVars>>]_vars

\* both programs were given an unknown target and both have exited with a
\* non-zero status; there is no report and no listener
C11_Witness ==
    /\ cliPc = "shell" /\ Len(ran) = 2
    /\ \E i, j \in 1..2 : ran[i].cli = "analyze" /\ ran[j].cli = "capture"
    /\ \A i \in 1..2 : ran[i].target = "nosuch" /\ ran[i].status = 1
    /\ written = <<>> /\ procs = <<>> /\ \A i \in DOMAIN lst : lst[i] = "none"

\* C12: when the analysis CLI has ended, it has exited non-zero and written no
\* report if the input path does not exist or the log has no decodable entry;
\* otherwise it has written the report to the resolved output path and exited
\* zero.
C12_ExitStatusAndReport ==
    (argv.cli = "analyze" /\ cliPc = "done") =>
        IF ~logExists \/ DecodableLines = <<>>
          THEN cliExit[1].status # 0 /\ written = <<>>
          ELSE /\ cliExit[1].status = 0
               /\ written = << <<OutputPath(argv), cliText>> >>

\* <<value>> of a variable in an environment, <<>> when it is not set
EnvLookup(environment, name) ==
    IF \E i \in 1..Len(environment) : environment[i][1] = name
      THEN <<ItemsGet(environment, name, <<>>)>>
      ELSE <<>>

VarNames == {"PATH", "OPENAI_BASE_URL", "NO_PROXY", "TRAFFIC_OUTPUT_DIR", "HOME"}

\* the resolved output directory, as written down with the profile's directory
ResolvedDir == (CHOOSE d \in OutputDirs : d.dir = envProfile.output_dir).resolved

\* ambient environment plus the output-directory variable
ExpectedListenerVar(name) ==
    IF name = OutputDirVar THEN <<ResolvedDir>> ELSE EnvLookup(ambient, name)

\* the same with the overrides on top
ExpectedTargetVar(name) ==
    IF EnvLookup(envProfile.env_overrides, name) # <<>>
      THEN EnvLookup(envProfile.env_overrides, name)
      ELSE ExpectedListenerVar(name)

\* C20: every listener is started with the ambient environment plus
\* TRAFFIC_OUTPUT_DIR set to the resolved output directory (which is what its
\* addon reads), the overrides not applied; the target command is started with
\* that environment and the overrides merged over it, an override winning;
\* os.environ of the runner stays as it was.
C20_EnvironmentContract ==
    /\ \A i \in 1..Len(listenerEnvs) :
         /\ \A name \in VarNames : EnvLookup(listenerEnvs[i], name) = ExpectedListenerVar(name)
         /\ addonDirs[i] = ResolvedDir
    /\ targetEnv # <<>> =>
         \A name \in VarNames : EnvLookup(targetEnv[1], name) = ExpectedTargetVar(name)
    /\ heap[1] = ambient

\* os.environ holds OPENAI_BASE_URL and an old TRAFFIC_OUTPUT_DIR, the profile
\* overrides OPENAI_BASE_URL, its output directory has dot segments: two
\* listeners and the target command have been started
C20_Witness ==
    /\ envPc = "ended" /\ Len(listenerEnvs) = 2 /\ targetEnv # <<>>
    /\ EnvLookup(ambient, "OPENAI_BASE_URL") = <<<<"h", "t", "t", "p", "s", ":", "/", "/", "a", "p", "i", ".", "o", "p", "e", "n", "a", "i", ".", "c", "o", "m", "/", "v", "1">>>>
    /\ EnvLookup(ambient, OutputDirVar) = <<<<"/", "o", "l", "d">>>>
    /\ envProfile.output_dir = <<".", "/", "o", "u", "t", "/", ".", ".", "/", "c", "a", "p", "/">>
    /\ EnvLookup(listenerEnvs[2], "OPENAI_BASE_URL") = <<<<"h", "t", "t", "p", "s", ":", "/", "/", "a", "p", "i", ".", "o", "p", "e", "n", "a", "i", ".", "c", "o", "m", "/", "v", "1">>>>
    /\ EnvLookup(listenerEnvs[2], OutputDirVar) = <<<<"/", "w", "/", "c", "a", "p">>>>
    /\ EnvLookup(targetEnv[1], "OPENAI_BASE_URL") = <<<<"h", "t", "t", "p", ":", "/", "/", "1", "2", "7", ".", "0", ".", "0", ".", "1", ":", "8", "0", "8", "0", "/", "v", "1">>>>
    /\ EnvLookup(targetEnv[1], OutputDirVar) = <<<<"/", "w", "/", "c", "a", "p">>>>

\* the first line of the trimmed body
FirstLine(text) == Split(Strip(text), NL)[1]

\* C22: a text body is rendered as an event-stream summary exactly when,
\* trimmed, it begins with the prefix by which the decoder recognises an event
\* line; every other text body is rendered as a raw block; the decoder takes
\* the event type of the first line of every body rendered as an event stream.
C22_RecognisedIffDecoderPrefix ==
    bodyPc = "rendered" =>
        /\ bodyRendered.kind \in {"sse", "raw"}
        /\ bodyRendered.kind = "sse" <=> StartsWith(Strip(bodyText), EventPrefix)
        /\ bodyRendered.kind = "sse" =>
             /\ bodyEvents # <<>>
             /\ bodyEvents[1].event = From(FirstLine(bodyText), 7)

\* what the code does: the renderer's test is for "event:" after lstrip()
RecognisedIffColonPrefix ==
    bodyPc = "rendered" =>
        /\ bodyRendered.kind \in {"sse", "raw"}
        /\ bodyRendered.kind = "sse" <=> StartsWith(Lstrip(bodyText), <<"e", "v", "e", "n", "t", ":">>)

\* the parts that have a text field, and their texts
HasTextField(part) ==
    part.t = "dict" /\ \E i \in 1..Len(part.items) : part.items[i][1] = <<"t", "e", "x", "t">>

TextFields ==
    [i \in 1..Len(SelectSeq(msgContent, HasTextField)) |->
        DictGet(SelectSeq(msgContent, HasTextField)[i], <<"t", "e", "x", "t">>, PyNone).s]

\* C23: the full text of a list of content parts is the texts of the parts
\* that have a text field joined by newlines, and the preview is made from
\* their texts joined by spaces; a part without a text field adds neither text
\* nor separator.
C23_PartsWithoutTextAddNothing ==
    msgPc = "extracted" =>
        /\ msgFull = Returns(Join(TextFields, NL))
        /\ msgPreview = PreviewOf(Returns(Join(TextFields, <<" ">>)))

\* what the code does: an object without a text field counts as the empty
\* text, separator included; an item that is no object adds nothing
ObjectTexts ==
    [i \in 1..Len(SelectSeq(msgContent, LAMBDA p : p.t = "dict")) |->
        IF HasTextField(SelectSeq(msgContent, LAMBDA p : p.t = "dict")[i])
          THEN DictGet(SelectSeq(msgContent, LAMBDA p : p.t = "dict")[i], <<"t", "e", "x", "t">>, PyNone).s
          ELSE <<>>]

ObjectsWithoutTextAddEmptyText ==
    msgPc = "extracted" =>
        /\ msgFull = Returns(Join(ObjectTexts, NL))
        /\ msgPreview = PreviewOf(Returns(Join(ObjectTexts, <<" ">>)))

(***************************************************************************)
(* Claims about the statistics of analyze                                  *)
(***************************************************************************)
\* analyze has returned on the input
Analyzed == anPc \in {"analyzed", "reported"}

\* the timestamp an exchange of the input carries, None when it has none
TimestampOf(entry) == DictGet(entry, KeyTimestamp, PyNone)

\* the exchanges of the input that carry a timestamp, and those whose
\* timestamp is not zero
WithTimestamp == {i \in 1..Len(anOriginal) : TimestampOf(anOriginal[i]) # PyNone}
WithNonZeroTimestamp == {i \in WithTimestamp : TimestampOf(anOriginal[i]).n # 0}

MaxTimestamp(positions) ==
    TimestampOf(anOriginal[CHOOSE x \in positions :
        \A y \in positions : TimestampOf(anOriginal[y]).n <= TimestampOf(anOriginal[x]).n]).n

MinTimestamp(positions) ==
    TimestampOf(anOriginal[CHOOSE x \in positions :
        \A y \in positions : TimestampOf(anOriginal[x]).n <= TimestampOf(anOriginal[y]).n]).n

\* the largest minus the smallest timestamp of the exchanges at the positions
\* given, zero for fewer than two positions
DurationOver(positions) ==
    IF Cardinality(positions) >= 2
      THEN MaxTimestamp(positions) - MinTimestamp(positions)
      ELSE 0

RequestBodyOf(i) == DictGet(DictGet(anOriginal[i], KeyRequest, PyDict(<<>>)), KeyBody, PyNone)
ResponseBodyOf(i) == DictGet(DictGet(anOriginal[i], KeyResponse, PyDict(<<>>)), KeyBody, PyNone)

\* the rule of the walk, as a set of <<path, type label>>: every key of an
\* object with the label of its value, then the value; of a list that is not
\* empty the first element only, under the path with [] appended; nothing of
\* an empty list or a scalar
RECURSIVE WalkedPaths(_, _)
WalkedPaths(v, path) ==
    IF v.t = "dict"
      THEN UNION {{<<FullKey(path, v.items[i][1]), type_name(v.items[i][2])>>}
                     \cup WalkedPaths(v.items[i][2], FullKey(path, v.items[i][1])) :
                  i \in 1..Len(v.items)}
    ELSE IF v.t = "list" /\ Len(v.items) > 0
      THEN WalkedPaths(v.items[1], path \o <<"[", "]">>)
    ELSE {}

\* the <<path, type label>> pairs a collection of type labels holds
LabelPairs(types) ==
    UNION {{<<types[i][1], l>> : l \in types[i][2]} : i \in 1..Len(types)}

\* the paths the walk rule gives for the structured request bodies and for
\* the structured response bodies of the input
RequestPaths ==
    UNION {WalkedPaths(RequestBodyOf(i), <<>>) :
           i \in {j \in 1..Len(anOriginal) : RequestBodyOf(j).t = "dict"}}

ResponsePaths ==
    UNION {WalkedPaths(ResponseBodyOf(i), <<>>) :
           i \in {j \in 1..Len(anOriginal) : ResponseBodyOf(j).t = "dict"}}

\* C25: after analyze the type labels collected for the request bodies are
\* those of the walk rule over the structured request bodies (object keys
\* with the label of their value, walked recursively; the first element only
\* of a list that is not empty, under []; nothing of an empty list or a
\* scalar), each path once, and every counted path is one of them; the same,
\* apart, for the response bodies
C25_KeyPathWalk ==
    Analyzed =>
        /\ LabelPairs(anStats.request_key_types) = RequestPaths
        /\ LabelPairs(anStats.response_key_types) = ResponsePaths
        /\ \A i, j \in 1..Len(anStats.request_key_types) :
             anStats.request_key_types[i][1] = anStats.request_key_types[j][1] => i = j
        /\ \A i, j \in 1..Len(anStats.response_key_types) :
             anStats.response_key_types[i][1] = anStats.response_key_types[j][1] => i = j
        /\ {anStats.request_key_counts[i][1] : i \in 1..Len(anStats.request_key_counts)}
             \subseteq {p[1] : p \in RequestPaths}
        /\ {anStats.response_key_counts[i][1] : i \in 1..Len(anStats.response_key_counts)}
             \subseteq {p[1] : p \in ResponsePaths}

\* a request body with the list [{"x": 1}, {"y": 2}], an empty list and a
\* nested object, and a response body with the key g1: items[].x is
\* collected, items[].y and empty[] are not, g1 is a string of the responses
\* and an object of the requests
C25_Witness ==
    /\ anPc = "analyzed"
    /\ <<<<"i", "t", "e", "m", "s", "[", "]", ".", "x">>, "int">> \in LabelPairs(anStats.request_key_types)
    /\ <<<<"i", "t", "e", "m", "s">>, "array">> \in LabelPairs(anStats.request_key_types)
    /\ <<<<"e", "m", "p", "t", "y">>, "array">> \in LabelPairs(anStats.request_key_types)
    /\ <<<<"m", "e", "t", "a", ".", "p", "a", "g", "e", ".", "n">>, "int">> \in LabelPairs(anStats.request_key_types)
    /\ \A p \in LabelPairs(anStats.request_key_types) :
         /\ p[1] # <<"i", "t", "e", "m", "s", "[", "]", ".", "y">>
         /\ p[1] # <<"e", "m", "p", "t", "y", "[", "]">>
    /\ <<<<"g", "1">>, "string">> \in LabelPairs(anStats.response_key_types)
    /\ <<<<"g", "1">>, "object">> \in LabelPairs(anStats.request_key_types)
    /\ <<<<"g", "1">>, "object">> \notin LabelPairs(anStats.response_key_types)

\* how often the walk rule meets a path in the structured request bodies and
\* in the structured response bodies of the input
RequestOccurrences(path) ==
    Cardinality({i \in 1..Len(anOriginal) :
                    /\ RequestBodyOf(i).t = "dict"
                    /\ path \in {p[1] : p \in WalkedPaths(RequestBodyOf(i), <<>>)}})

ResponseOccurrences(path) ==
    Cardinality({i \in 1..Len(anOriginal) :
                    /\ ResponseBodyOf(i).t = "dict"
                    /\ path \in {p[1] : p \in WalkedPaths(ResponseBodyOf(i), <<>>)}})

\* a reported list has at most TopKeys entries, in order of non-increasing count
BoundedAndOrdered(counts) ==
    /\ Len(counts) <= TopKeys
    /\ \A i \in 1..Len(counts) : \A j \in i..Len(counts) : counts[i][2] >= counts[j][2]

\* C26: request_key_counts and response_key_counts hold at most 30 entries
\* each, in order of non-increasing count; the count of an entry is the
\* number of occurrences of its path, and no path left out of a list occurs
\* more often than a path in the list
C26_KeyListsBoundedByCutoff ==
    Analyzed =>
        /\ BoundedAndOrdered(anStats.request_key_counts)
        /\ BoundedAndOrdered(anStats.response_key_counts)
        /\ \A i \in 1..Len(anStats.request_key_counts) :
             /\ anStats.request_key_counts[i][2] = RequestOccurrences(anStats.request_key_counts[i][1])
             /\ \A p \in RequestPaths :
                  (\A j \in 1..Len(anStats.request_key_counts) : anStats.request_key_counts[j][1] # p[1])
                     => RequestOccurrences(p[1]) <= anStats.request_key_counts[i][2]
        /\ \A i \in 1..Len(anStats.response_key_counts) :
             /\ anStats.response_key_counts[i][2] = ResponseOccurrences(anStats.response_key_counts[i][1])
             /\ \A p \in ResponsePaths :
                  (\A j \in 1..Len(anStats.response_key_counts) : anStats.response_key_counts[j][1] # p[1])
                     => ResponseOccurrences(p[1]) <= anStats.response_key_counts[i][2]

\* more than 30 request paths were met, g5.f twice and first met after 30
\* other paths: the list is
\* cut to 30 entries, g5.f is in it ahead of paths met once, and a path met
\* once is left out
C26_Witness ==
    /\ anPc = "analyzed"
    /\ Cardinality({p[1] : p \in RequestPaths}) > TopKeys
    /\ Len(anStats.request_key_counts) = TopKeys
    /\ \E k \in (TopKeys + 1)..Len(anStats.request_key_types) :
         anStats.request_key_types[k][1] = <<"g", "5", ".", "f">>
    /\ \E i \in 1..2 : anStats.request_key_counts[i] = <<<<"g", "5", ".", "f">>, 2>>
    /\ anStats.request_key_counts[TopKeys][2] = 1

\* the sum of the counts of a list of <<name, count>> pairs
RECURSIVE SumOfCounts(_)
SumOfCounts(counts) ==
    IF counts = <<>> THEN 0 ELSE counts[1][2] + SumOfCounts(Tail(counts))

\* the status of the exchange at a position of the input, None when it has none
StatusOf(i) == DictGet(DictGet(anOriginal[i], KeyResponse, PyDict(<<>>)), KeyStatusCode, PyNone)

WithStatus == {i \in 1..Len(anOriginal) : StatusOf(i) # PyNone}

\* C27: after analyze the endpoint counts and the method counts each sum to
\* total_requests, the status counts sum to the number of exchanges that have
\* a status and their keys are the statuses written as decimal strings, and
\* endpoint_methods names the endpoints of endpoint_counts, each with at
\* least one method
C27_CountsAreConsistent ==
    Analyzed =>
        /\ anStats.total_requests = Len(anOriginal)
        /\ SumOfCounts(anStats.endpoint_counts) = anStats.total_requests
        /\ SumOfCounts(anStats.method_counts) = anStats.total_requests
        /\ SumOfCounts(anStats.status_counts) = Cardinality(WithStatus)
        /\ {anStats.status_counts[i][1] : i \in 1..Len(anStats.status_counts)}
             = {IntToText(StatusOf(i).n) : i \in WithStatus}
        /\ {anStats.endpoint_methods[i][1] : i \in 1..Len(anStats.endpoint_methods)}
             = {anStats.endpoint_counts[i][1] : i \in 1..Len(anStats.endpoint_counts)}
        /\ Len(anStats.endpoint_methods) = Len(anStats.endpoint_counts)
        /\ \A i \in 1..Len(anStats.endpoint_methods) : anStats.endpoint_methods[i][2] # <<>>

\* an exchange without a status and one with the status 0: the status counts
\* hold "0" once and sum to 1, the endpoint counts sum to 2
C27_Witness ==
    /\ anPc = "analyzed"
    /\ Len(anOriginal) = 2
    /\ StatusOf(1) = PyNone /\ StatusOf(2) = PyInt(0)
    /\ anStats.status_counts = << <<<<"0">>, 1>> >>
    /\ Len(anStats.endpoint_counts) = 2
    /\ SumOfCounts(anStats.endpoint_counts) = 2

\* C28: every entry load_entries returns is a mapping, and analyze and
\* format_report complete on the entries loaded from any log: the analysis
\* CLI does not end with an AttributeError
C28_LoadedEntriesAreMappings ==
    EntriesAreLoaded =>
        /\ \A i \in 1..Len(cliEntries) : cliEntries[i].t = "dict"
        /\ cliExit = <<>> \/ cliExit[1].stderr # "AttributeError"

\* C29: format_request_body returns text for every request body; no body
\* shape makes it raise
C29_RequestRendererIsTotal ==
    reqPc # "raised"

\* what the code does: a body that is no object is always rendered, and an
\* object is rendered unless a field of it is of a shape the summary cannot
\* read
RendersUnlessAFieldIsMisshapen ==
    /\ (reqPc # "build" /\ reqBody.t # "dict") => reqPc = "rendered"
    /\ (reqPc # "build" /\ reqBody.t = "dict") =>
          (reqPc = "raised" <=>
              \E i \in 1..Len(reqBody.items) :
                  \E k \in {1, 3, 4, 6, 8} : reqBody.items[i] = FieldKinds[k])

\* C30: the command is not launched once an interrupt signal was delivered
\* after the handlers were installed: whenever the command has been
\* launched, no signal had arrived before its launch
C30_NoLaunchAfterInterrupt ==
    hist.launched => hist.sigAtLaunch = 0

\* what the code does reach: the command launched after a signal, with every
\* listener terminated and reaped by the handler before the launch
LaunchedAgainstTornDownListeners ==
    /\ pc = "cmd" /\ hist.launched /\ hist.sigAtLaunch > 0
    /\ hist.startedAtLaunch # {}
    /\ \A i \in hist.startedAtLaunch : lst[i] = "reaped" /\ i \in hist.polledAlive
====
